---- MODULE Spec2Model ----
(***************************************************************************)
(* Debt payoff simulation of loan-agent (service/debt_exit_service.go).    *)
(*                                                                         *)
(* Arithmetic.  The program computes in float64.  The model computes on a  *)
(* fixed-point grid: every amount of money inside a run is an integer      *)
(* number of units, Unit units to the dollar, and every product or         *)
(* quotient is rounded to the nearest unit, as a float operation is        *)
(* rounded to the nearest float.  Amount and MinimumPayment of a debt are  *)
(* whole dollars and its InterestRate whole percent; a request's           *)
(* AvailableMonthlyPayment is a number of units, so that a budget with a   *)
(* fraction of a cent can be drawn.                                        *)
(*                                                                         *)
(* A float sum is exact on that grid except where the code compares its    *)
(* outcome with 0: balance - ((balance + interest) - interest) is 0 in     *)
(* exact arithmetic and can be one ulp in float64, because the grid of a   *)
(* float doubles at every power of two.  FloatSum keeps that: the last bit *)
(* of a balance is one unit, and a sum that reaches the next power of two  *)
(* is rounded to two units, halves to even.  Likewise the interest of the  *)
(* month loop, balance * ((rate / 100) / 12), can be one ulp above the     *)
(* interest of the validation, balance * (rate / 100) / 12: Interest is    *)
(* one unit above MonthlyInterest where float64 makes it so.               *)
(***************************************************************************)
EXTENDS Integers, Sequences, FiniteSets, TLC

\* ------------------------------------------------------------------ bounds
\* Longest debt list the requests are drawn with (besides the one over-long list).
MaxDebts == 2
\* The month counter of the model never passes this value (the loop of the
\* program stops long before).
MonthCap == 604
\* Largest maxTerm - minTerm of the valid term ranges RecommendTerm is called
\* with.
MaxSpan == 5
\* Goroutines that call Allow, calls of Allow they make in all, and the last
\* tick of the clock.
MaxCallers == 2
MaxCalls == 3
MaxClock == 3

\* --------------------------------------------------------------- constants
MaxInterestRate == 1000
MaxDebtAmount == 100000000
MaxDebtsPerRequest == 50
MaxDebtPayoffMonths == 600
MaxLoanAmount == 1000000000
MaxTermMonths == 600
MaxTermRangeMonths == 120

\* Units per dollar, and units per cent.
Unit == 100 * 100
Cent == Unit \div 100
\* 0.01, in units
DebtBalanceTolerance == Cent

ToUnits(dollars) == dollars * Unit

Min2(a, b) == IF a < b THEN a ELSE b
Max2(a, b) == IF a > b THEN a ELSE b

\* math.Round(value*100) / 100: to the nearest cent, halves away from zero.
roundTo2Decimals(v) ==
  IF v >= 0 THEN ((v + Cent \div 2) \div Cent) * Cent
  ELSE -(((-v + Cent \div 2) \div Cent) * Cent)

\* balance * (InterestRate / 100) / 12, to the nearest unit.
MonthlyInterest(balance, rate) == (balance * rate + 600) \div 1200

\* The balances and rates of the model for which float64 gives
\* balance * ((rate / 100) / 12), the interest of the month loop, one ulp
\* above balance * (rate / 100) / 12, the interest of the validation:
\* 400 * ((27.0 / 100) / 12) = 9.000000000000002 and 400 * (27.0 / 100) / 12
\* = 9.  (The two agree for every other debt the requests are drawn with.)
RoundedApart == { <<400 * Unit, 27>> }

\* interest := balances[debt.Name] * monthlyRate, with
\* monthlyRate := (debt.InterestRate / 100) / 12; one ulp is one unit.
Interest(balance, rate) ==
  MonthlyInterest(balance, rate)
  + (IF <<balance, rate>> \in RoundedApart THEN 1 ELSE 0)

\* The powers of two between 1/16 dollar and 16384 dollars, in units: where
\* the grid of a float64 amount doubles.
Binades == { (Unit \div 16) * 2^k : k \in 0..18 }

CrossesBinade(a, s) == \E b \in Binades : a < b /\ b <= s

\* a + b in float64, a being an amount whose last bit is one unit: a sum in
\* the next binade has a grid of two units, and an odd sum goes to the
\* nearest multiple of two, halves to even.
FloatSum(a, b) ==
  IF (a + b) % 2 = 1 /\ CrossesBinade(a, a + b)
  THEN (IF (a + b) % 4 = 1 THEN a + b - 1 ELSE a + b + 1)
  ELSE a + b

\* ------------------------------------------------------------------ inputs
Debt(n, a, r, m) ==
  [Name |-> n, Amount |-> a, InterestRate |-> r, MinimumPayment |-> m]

\* Debts that pass every per-debt rule.
GoodDebts ==
  { Debt("a", 100, 12, 1),    \* minimum payment = first-month interest
    Debt("a", 50, 12, 1),
    Debt("b", 300, 12, 20),
    Debt("b", 60, 24, 50),
    Debt("c", 200, 6, 1),     \* minimum payment = first-month interest
    Debt("c", 100, 0, 5) }

\* Debts that break one per-debt rule each.
BadDebts ==
  { Debt("", 100, 12, 5),
    Debt("a", 0, 12, 5),
    Debt("a", MaxDebtAmount + 1, 12, 5),
    Debt("b", 100, -1, 5),
    Debt("b", 100, MaxInterestRate + 1, 5),
    Debt("c", 100, 12, 0),
    Debt("c", 300, 12, 2) }   \* minimum payment below first-month interest

DebtPool == GoodDebts \cup BadDebts

DebtLists == UNION { [1..n -> DebtPool] : n \in 0..MaxDebts }

\* One list longer than MaxDebtsPerRequest.
TooManyDebts == [i \in 1..(MaxDebtsPerRequest + 1) |-> Debt("a", 100, 12, 1)]

Budgets == { ToUnits(b) : b \in {0, 1, 2, 31, 75} }
Strategies == {"snowball", "avalanche", "compare", "other"}

Request(ds, b, s) == [Debts |-> ds, AvailableMonthlyPayment |-> b, Strategy |-> s]

\* Scenario A: one debt at 0%, minimum payment = budget, 12 payments.
ScenarioA == <<Debt("Debt1", 1200, 0, 100)>>
\* Scenario B: the smaller debt has the higher rate.
ScenarioB == <<Debt("Debt1", 1000, 20, 50), Debt("Debt2", 5000, 5, 100)>>
\* One debt at 0% that takes 20 payments, and one that takes 700.
TwentyPayments == <<Debt("c", 100, 0, 5)>>
SevenHundredPayments == <<Debt("c", 700, 0, 1)>>
\* Two debts whose first one is cleared by a minimum payment of 7.90 + 0.1185,
\* a sum just above 8, when the budget is 69.
AcrossEight == <<Debt("a", 60, 18, 40), Debt("b", 64, 36, 16)>>
\* One debt paid with a budget of 31.006.
FractionOfACent == <<Debt("b", 300, 12, 20)>>
\* A debt whose minimum payment is the interest of its first month as the
\* validation computes it (9), and a second debt; the budget is the sum of
\* the minimum payments.
InterestOneUlpAbove == <<Debt("a", 400, 27, 9), Debt("c", 100, 0, 5)>>

\* Requests drawn one by one, besides those drawn from the pool.
ScenarioRequests ==
  { Request(ScenarioA, ToUnits(100), s) : s \in {"snowball", "avalanche"} }
  \cup { Request(ScenarioB, ToUnits(500), s) :
           s \in {"snowball", "avalanche", "compare"} }
  \cup { Request(TwentyPayments, ToUnits(5), "snowball"),
         Request(SevenHundredPayments, ToUnits(1), "avalanche"),
         Request(AcrossEight, ToUnits(66), "snowball"),
         Request(AcrossEight, ToUnits(69), "snowball"),
         Request(FractionOfACent, ToUnits(31) + (3 * Cent) \div 5,
                 "snowball"),
         Request(InterestOneUlpAbove, ToUnits(14), "avalanche") }

\* Every budget a request is drawn with.
AllBudgets == Budgets \cup {r.AvailableMonthlyPayment : r \in ScenarioRequests}

\* -------------------------------------------------------------- validation
\* The name loop of CalculateDebtExitPlan; debtNames is the set of names seen.
RECURSIVE CheckNames(_, _, _)
CheckNames(ds, i, debtNames) ==
  IF i > Len(ds) THEN ""
  ELSE IF ds[i].Name = "" THEN "empty debt name"
  ELSE IF ds[i].Name \in debtNames THEN "duplicate debt name"
  ELSE CheckNames(ds, i + 1, debtNames \cup {ds[i].Name})

ValidStrategy(s) == s \in {"snowball", "avalanche", "compare"}

MinimumBelowInterestLoose(d) ==
  ToUnits(d.MinimumPayment) <= MonthlyInterest(ToUnits(d.Amount), d.InterestRate)

\* debt.MinimumPayment < debt.Amount * (debt.InterestRate / 100) / 12
MinimumBelowInterest(d) ==
  ToUnits(d.MinimumPayment) < MonthlyInterest(ToUnits(d.Amount), d.InterestRate)

\* The per-debt rules, in the order of the code.
CheckDebt(d) ==
  IF d.Amount <= 0 THEN "invalid amount"
  ELSE IF d.Amount > MaxDebtAmount THEN "amount over the maximum"
  ELSE IF d.InterestRate < 0 THEN "invalid rate"
  ELSE IF d.InterestRate > MaxInterestRate THEN "rate over the maximum"
  ELSE IF d.MinimumPayment <= 0 THEN "invalid minimum payment"
  ELSE IF MinimumBelowInterest(d) THEN "minimum payment below monthly interest"
  ELSE ""

BudgetCheckDropped(totalMinimumPayments, available) == ""

\* The budget held against the largest sum of minimum payments it could
\* cover in two months.
CheckBudgetOverTwoMonths(totalMinimumPayments, available) ==
  IF totalMinimumPayments > 2 * available
  THEN "budget below the minimum payments" ELSE ""

CheckBudget(totalMinimumPayments, available) ==
  IF totalMinimumPayments > available
  THEN "budget below the minimum payments" ELSE ""

\* The debt loop, then the budget rule.
RECURSIVE CheckDebts(_, _, _, _)
CheckDebts(ds, i, totalMinimumPayments, available) ==
  IF i > Len(ds) THEN CheckBudget(totalMinimumPayments, available)
  ELSE IF CheckDebt(ds[i]) # "" THEN CheckDebt(ds[i])
  ELSE CheckDebts(ds, i + 1,
                  totalMinimumPayments + ToUnits(ds[i].MinimumPayment),
                  available)

\* The error CalculateDebtExitPlan returns before any run ("" when none).
Validate(in) ==
  IF Len(in.Debts) = 0 THEN "no debts"
  ELSE IF Len(in.Debts) > MaxDebtsPerRequest THEN "too many debts"
  ELSE IF in.AvailableMonthlyPayment <= 0 THEN "invalid monthly payment"
  ELSE IF CheckNames(in.Debts, 1, {}) # "" THEN CheckNames(in.Debts, 1, {})
  ELSE IF ~ValidStrategy(in.Strategy) THEN "invalid strategy"
  ELSE CheckDebts(in.Debts, 1, 0, in.AvailableMonthlyPayment)

\* ------------------------------------------------------- calculateStrategy
\* Snowball sorted by descending amount.
LessLargestFirst(strat, x, y) ==
  IF strat = "snowball" THEN x.Amount > y.Amount
  ELSE x.InterestRate > y.InterestRate

\* The less function of each sort.Slice call.
Less(strat, x, y) ==
  IF strat = "snowball" THEN x.Amount < y.Amount
  ELSE x.InterestRate > y.InterestRate

\* sort.Slice on a slice of fewer than 12 elements is an insertion sort: the
\* new element moves left while it is less than its left neighbour.
RECURSIVE InsertDebt(_, _, _)
InsertDebt(s, x, strat) ==
  IF s = <<>> THEN <<x>>
  ELSE IF Less(strat, x, s[Len(s)])
       THEN Append(InsertDebt(SubSeq(s, 1, Len(s) - 1), x, strat), s[Len(s)])
       ELSE Append(s, x)

RECURSIVE SortDebts(_, _)
SortDebts(ds, strat) ==
  IF ds = <<>> THEN <<>>
  ELSE InsertDebt(SortDebts(SubSeq(ds, 1, Len(ds) - 1), strat), ds[Len(ds)],
                  strat)

InitialBalances(ds) ==
  [n \in {ds[i].Name : i \in 1..Len(ds)} |->
     ToUnits((CHOOSE d \in {ds[i] : i \in 1..Len(ds)} : d.Name = n).Amount)]

\* The interest loop: interest of every debt with balance > 0, on the balance
\* the month starts with.
InterestMap(ds, bal) ==
  [n \in {ds[i].Name : i \in {k \in 1..Len(ds) : bal[ds[k].Name] > 0}} |->
     Interest(bal[n],
       (CHOOSE d \in {ds[i] : i \in 1..Len(ds)} : d.Name = n).InterestRate)]

RECURSIVE SumInterest(_, _, _)
SumInterest(ds, interestMap, i) ==
  IF i > Len(ds) THEN 0
  ELSE (IF ds[i].Name \in DOMAIN interestMap THEN interestMap[ds[i].Name] ELSE 0)
       + SumInterest(ds, interestMap, i + 1)

\* A payment that is not held to what clears the debt.
MinimumPhasePaymentPastPayoff(d, balance, interest, available) ==
  Min2(Max2(ToUnits(d.MinimumPayment), interest), available)

\* The payment of the minimum phase to one debt.
MinimumPhasePayment(d, balance, interest, available) ==
  LET minRequiredPayment == Max2(ToUnits(d.MinimumPayment), interest)
      maxPossiblePayment == FloatSum(balance, interest)
      payment == Min2(minRequiredPayment, maxPossiblePayment)
  IN Min2(payment, available)

\* The whole payment taken off the balance, interest not covered first.
BalanceIgnoringInterest(balance, payment, interest) ==
  Max2(balance - payment, 0)

\* The balance after a payment that covers interest first.
BalanceAfterPayment(balance, payment, interest) ==
  Max2(balance - Max2(payment - interest, 0), 0)

\* One pass of the minimum-payment loop, for debt d; st = [bal, payments,
\* available, totalPaid].
PayMinimum(d, interestMap, st) ==
  IF st.bal[d.Name] <= 0 THEN st
  ELSE
    LET interest == interestMap[d.Name]
        payment == MinimumPhasePayment(d, st.bal[d.Name], interest,
                                       st.available)
        newBal == BalanceAfterPayment(st.bal[d.Name], payment, interest)
    IN IF payment > 0
       THEN [bal |-> [st.bal EXCEPT ![d.Name] = newBal],
             payments |-> Append(st.payments,
                [DebtName |-> d.Name, Payment |-> roundTo2Decimals(payment),
                 RemainingBalance |-> roundTo2Decimals(newBal)]),
             available |-> st.available - payment,
             totalPaid |-> st.totalPaid + payment]
       ELSE st

\* The minimum-payment loop from debt i on.
RECURSIVE MinimumPhase(_, _, _, _)
MinimumPhase(ds, interestMap, i, st) ==
  IF i > Len(ds) THEN st
  ELSE CHOOSE r \in { MinimumPhase(ds, interestMap, i + 1, nx) :
                        nx \in {PayMinimum(ds[i], interestMap, st)} } : TRUE

FirstOf(S) == CHOOSE k \in S : \A l \in S : k <= l

\* The open debt with the smallest current balance (0 when there is none).
SurplusTargetSmallestBalance(ds, bal) ==
  LET open == {k \in 1..Len(ds) : bal[ds[k].Name] > 0}
  IN IF open = {} THEN 0
     ELSE FirstOf({k \in open :
            \A l \in open : bal[ds[k].Name] <= bal[ds[l].Name]})

\* The debt the surplus loop stops at: the first debt of the order with
\* balance > 0 (0 when there is none).
SurplusTarget(ds, bal) ==
  LET open == {k \in 1..Len(ds) : bal[ds[k].Name] > 0}
  IN IF open = {} THEN 0 ELSE FirstOf(open)

\* The surplus handed down the order: what the first open debt does not take
\* goes to the next one.
RECURSIVE Cascade(_, _, _)
Cascade(ds, i, st) ==
  IF i > Len(ds) \/ ~(st.available > 0) THEN st
  ELSE
    LET n == ds[i].Name
        extraPayment == Min2(st.available, st.bal[n])
        at == {k \in 1..Len(st.payments) : st.payments[k].DebtName = n}
    IN IF ~(st.bal[n] > 0) \/ at = {} THEN Cascade(ds, i + 1, st)
       ELSE
         LET k == FirstOf(at)
             newBal == Max2(st.bal[n] - extraPayment, 0)
         IN Cascade(ds, i + 1,
              [bal |-> [st.bal EXCEPT ![n] = newBal],
               payments |-> [st.payments EXCEPT ![k] =
                  [DebtName |-> n,
                   Payment |-> roundTo2Decimals(st.payments[k].Payment
                                                + extraPayment),
                   RemainingBalance |-> roundTo2Decimals(newBal)]],
               available |-> st.available - extraPayment,
               totalPaid |-> st.totalPaid + extraPayment,
               target |-> IF st.target = "" THEN n ELSE st.target,
               extra |-> IF st.target = "" THEN extraPayment ELSE st.extra])

SurplusPhaseCascading(ds, st) ==
  Cascade(ds, 1, [bal |-> st.bal, payments |-> st.payments,
                  available |-> st.available, totalPaid |-> st.totalPaid,
                  target |-> "", extra |-> 0])

\* The surplus recorded as an entry of its own, after the entries of the
\* minimum phase.
SurplusPhaseAppending(ds, st) ==
  LET t == SurplusTarget(ds, st.bal)
      none == [bal |-> st.bal, payments |-> st.payments,
               available |-> st.available, totalPaid |-> st.totalPaid,
               target |-> "", extra |-> 0]
  IN IF ~(st.available > 0) \/ t = 0 THEN none
     ELSE
       LET n == ds[t].Name
           extraPayment == Min2(st.available, st.bal[n])
           newBal == Max2(st.bal[n] - extraPayment, 0)
       IN [bal |-> [st.bal EXCEPT ![n] = newBal],
           payments |-> Append(st.payments,
              [DebtName |-> n,
               Payment |-> roundTo2Decimals(extraPayment),
               RemainingBalance |-> roundTo2Decimals(newBal)]),
           available |-> st.available - extraPayment,
           totalPaid |-> st.totalPaid + extraPayment,
           target |-> n, extra |-> extraPayment]

\* The whole remaining budget taken off the balance of the target, with no
\* cap at the balance and no floor at 0.
SurplusPhaseWholeBudget(ds, st) ==
  LET t == SurplusTarget(ds, st.bal)
      none == [bal |-> st.bal, payments |-> st.payments,
               available |-> st.available, totalPaid |-> st.totalPaid,
               target |-> "", extra |-> 0]
  IN IF ~(st.available > 0) \/ t = 0 THEN none
     ELSE
       LET n == ds[t].Name
           extraPayment == st.available
           at == {k \in 1..Len(st.payments) : st.payments[k].DebtName = n}
       IN IF at = {} THEN none
          ELSE
            LET k == FirstOf(at)
                newBal == st.bal[n] - extraPayment
            IN [bal |-> [st.bal EXCEPT ![n] = newBal],
                payments |-> [st.payments EXCEPT ![k] =
                   [DebtName |-> n,
                    Payment |-> roundTo2Decimals(st.payments[k].Payment
                                                 + extraPayment),
                    RemainingBalance |-> roundTo2Decimals(newBal)]],
                available |-> st.available - extraPayment,
                totalPaid |-> st.totalPaid + extraPayment,
                target |-> n, extra |-> extraPayment]

\* The surplus phase; besides st's fields the result tells the debt that got
\* the surplus and how much ("" and 0 when none did).
SurplusPhase(ds, st) ==
  LET t == SurplusTarget(ds, st.bal)
      none == [bal |-> st.bal, payments |-> st.payments,
               available |-> st.available, totalPaid |-> st.totalPaid,
               target |-> "", extra |-> 0]
  IN IF ~(st.available > 0) \/ t = 0 THEN none
     ELSE
       LET n == ds[t].Name
           extraPayment == Min2(st.available, st.bal[n])
           at == {k \in 1..Len(st.payments) : st.payments[k].DebtName = n}
       IN IF at = {} THEN none
          ELSE
            LET k == FirstOf(at)
                newBal == Max2(st.bal[n] - extraPayment, 0)
            IN [bal |-> [st.bal EXCEPT ![n] = newBal],
                payments |-> [st.payments EXCEPT ![k] =
                   [DebtName |-> n,
                    Payment |-> roundTo2Decimals(st.payments[k].Payment
                                                 + extraPayment),
                    RemainingBalance |-> roundTo2Decimals(newBal)]],
                available |-> st.available - extraPayment,
                totalPaid |-> st.totalPaid + extraPayment,
                target |-> n, extra |-> extraPayment]

\* The loop is left as soon as no balance exceeds one minimum payment.
AllPaidWithinOnePayment(ds, bal) ==
  \A i \in 1..Len(ds) : ~(bal[ds[i].Name] > ToUnits(ds[i].MinimumPayment))

\* The loop is left as soon as one balance is within the tolerance.
AllPaidSomeDebt(ds, bal) ==
  \E i \in 1..Len(ds) : ~(bal[ds[i].Name] > DebtBalanceTolerance)

\* The allPaid flag after a month.
AllPaid(ds, bal) ==
  \A i \in 1..Len(ds) : ~(bal[ds[i].Name] > DebtBalanceTolerance)

CeilingNever(m) == FALSE

CeilingReached(m) == m > MaxDebtPayoffMonths

RECURSIVE SumAmounts(_, _)
SumAmounts(ds, i) ==
  IF i > Len(ds) THEN 0 ELSE ToUnits(ds[i].Amount) + SumAmounts(ds, i + 1)

\* ------------------------------------------------------------ loan service
\* A loan amount: Whole dollars and Part units, 0 <= Part < Unit (the limit
\* MaxLoanAmount is a number of dollars that has no number of units).
Amount(whole, part) == [Whole |-> whole, Part |-> part]

\* amount > dollars
AmountAbove(a, dollars) ==
  a.Whole > dollars \/ (a.Whole = dollars /\ a.Part > 0)

AmountUnits(a) == ToUnits(a.Whole) + a.Part

\* domain.LoanInput
LoanInput(a, rate, n) ==
  [Amount |-> a, InterestRate |-> rate, TermMonths |-> n]

\* The zero value of domain.LoanResult.
ZeroLoanResult ==
  [MonthlyPayment |-> 0, TotalPayment |-> 0, TotalInterest |-> 0]

\* LoanService.CalculateLoan's validation without its first test.
ValidateLoanAcceptingAnyAmount(in) ==
  IF AmountAbove(in.Amount, MaxLoanAmount) THEN "monto excede el maximo"
  ELSE IF in.InterestRate < 0 THEN "tasa invalida"
  ELSE IF in.InterestRate > MaxInterestRate THEN "tasa excede el maximo"
  ELSE IF in.TermMonths <= 0 THEN "plazo invalido"
  ELSE IF in.TermMonths > MaxTermMonths THEN "plazo excede el maximo"
  ELSE ""

\* LoanService.CalculateLoan's validation: the error it returns, "" for none.
ValidateLoan(in) ==
  IF ~AmountAbove(in.Amount, 0) THEN "monto invalido"
  ELSE IF AmountAbove(in.Amount, MaxLoanAmount) THEN "monto excede el maximo"
  ELSE IF in.InterestRate < 0 THEN "tasa invalida"
  ELSE IF in.InterestRate > MaxInterestRate THEN "tasa excede el maximo"
  ELSE IF in.TermMonths <= 0 THEN "plazo invalido"
  ELSE IF in.TermMonths > MaxTermMonths THEN "plazo excede el maximo"
  ELSE ""

\* a / b to the nearest unit, b > 0.
RoundDiv(a, b) ==
  IF a >= 0 THEN (a + b \div 2) \div b ELSE -((-a + b \div 2) \div b)

\* math.Pow(1+tasaMensual, n), in units, tasaMensual being rate / 100 / 12.
RECURSIVE Compound(_, _)
Compound(rate, n) ==
  IF n = 0 THEN Unit
  ELSE RoundDiv(Compound(rate, n - 1) * (1200 + rate), 1200)

\* The instalment: Amount / n at rate 0, and otherwise
\* Amount * (tasaMensual / (1 - (1+tasaMensual)^-n)), which is
\* (Amount * tasaMensual) * p / (p - 1) for p = (1+tasaMensual)^n.
Cuota(in) ==
  LET a == AmountUnits(in.Amount)
      n == in.TermMonths
  IN IF in.InterestRate = 0 THEN RoundDiv(a, n)
     ELSE LET p == Compound(in.InterestRate, n)
          IN RoundDiv(MonthlyInterest(a, in.InterestRate) * p, p - Unit)

\* The result of a CalculateLoan that would multiply the rounded instalment.
ComputeLoanFromRoundedCuota(in) ==
  LET cuota == roundTo2Decimals(Cuota(in))
      total == cuota * in.TermMonths
      intereses == total - AmountUnits(in.Amount)
  IN [MonthlyPayment |-> cuota,
      TotalPayment |-> roundTo2Decimals(total),
      TotalInterest |-> roundTo2Decimals(intereses)]

\* The domain.LoanResult CalculateLoan computes for a valid input.
ComputeLoan(in) ==
  LET cuota == Cuota(in)
      total == cuota * in.TermMonths
      intereses == total - AmountUnits(in.Amount)
  IN [MonthlyPayment |-> roundTo2Decimals(cuota),
      TotalPayment |-> roundTo2Decimals(total),
      TotalInterest |-> roundTo2Decimals(intereses)]

\* MockLoanRepository.Save: the error it returns.
Save(force) == IF force THEN "save error" ELSE ""

\* What CalculateLoan returns after Save has returned saveErr, if the
\* failure of Save were the failure of the call.
AfterSavePropagating(computed, saveErr) ==
  IF saveErr # "" THEN [result |-> ZeroLoanResult, err |-> saveErr]
  ELSE [result |-> computed, err |-> ""]

\* What CalculateLoan returns after Save has returned saveErr: the failure
\* is logged and the result returned.
AfterSave(computed, saveErr) == [result |-> computed, err |-> ""]

\* The loans CalculateLoan is called with.
LoanAmounts ==
  { Amount(-1, 0), Amount(0, 0), Amount(0, 7550), Amount(12, 0),
    Amount(100, 0), Amount(500, 0), Amount(MaxLoanAmount + 1, 0) }

LoanRates == {-1, 0, 12, 24, MaxInterestRate + 1}

LoanTerms == {0, 1, 6, 12, MaxTermMonths + 1}

\* The zero-interest loan of the tests, and the largest rate and term.
ScenarioLoans ==
  { LoanInput(Amount(1200, 0), 0, 12),
    LoanInput(Amount(12, 0), MaxInterestRate, 1),
    LoanInput(Amount(1200, 0), 0, MaxTermMonths) }

LoanInputs ==
  { LoanInput(a, r, n) : a \in LoanAmounts, r \in LoanRates, n \in LoanTerms }
  \cup ScenarioLoans

\* ----------------------------------------------------- term recommendation
\* domain.TermRecommendationInput
TermInput(a, rate, lo, hi, maxPay, pref) ==
  [Amount |-> a, InterestRate |-> rate, MinTermMonths |-> lo,
   MaxTermMonths |-> hi, MaxMonthlyPayment |-> maxPay, Preference |-> pref]

\* The zero value of domain.TermRecommendationResult.
ZeroTermResult == [RecommendedTerm |-> 0, Recommendations |-> <<>>]

Preferences == {"minimize_interest", "minimize_payment", "balanced"}

\* RecommendTerm's validation: the error it returns, "" for none.
ValidateTermInput(in) ==
  IF ~AmountAbove(in.Amount, 0) THEN "monto invalido"
  ELSE IF in.InterestRate < 0 THEN "tasa invalida"
  ELSE IF in.MinTermMonths <= 0 \/ in.MaxTermMonths <= 0
    THEN "plazos invalidos"
  ELSE IF in.MinTermMonths > in.MaxTermMonths
    THEN "plazo minimo mayor que maximo"
  ELSE IF in.MaxTermMonths > MaxTermMonths
    THEN "plazo maximo excede el limite"
  ELSE IF in.MaxTermMonths - in.MinTermMonths > MaxTermRangeMonths
    THEN "rango de plazos excede el maximo"
  ELSE IF in.MaxMonthlyPayment <= 0 THEN "pago mensual maximo invalido"
  ELSE IF in.Preference \notin Preferences THEN "preferencia invalida"
  ELSE ""

NoValidTerms == "no se encontraron plazos validos"

\* A float64 score: a number of units of a point, or NaN.
Score(v) == [NaN |-> FALSE, Value |-> v]
NaN == [NaN |-> TRUE, Value |-> 0]

\* x > y on float64: false when either is NaN.
ScoreGreater(x, y) == ~x.NaN /\ ~y.NaN /\ x.Value > y.Value

\* 10.0 * (1.0 - num/den), in units of a point, den > 0.
TenTimesOneMinus(num, den) == 10 * (Unit - RoundDiv(Unit * num, den))

\* TermRecommendationService.calculateScore.  The term score divides by
\* maxTerm - minTerm: 0/0 is NaN in float64, and NaN stays NaN through the
\* weighted sum and the rounding.
calculateScore(res, in, t) ==
  LET a == AmountUnits(in.Amount)
      maxPossibleInterest ==
        RoundDiv(a * in.InterestRate * in.MaxTermMonths, 1200)
      minPossibleInterest ==
        RoundDiv(a * in.InterestRate * in.MinTermMonths, 1200)
      interestRange == maxPossibleInterest - minPossibleInterest
      perMaxTerm == RoundDiv(a, in.MaxTermMonths)
      paymentRange == ToUnits(in.MaxMonthlyPayment) - perMaxTerm
      interestScore ==
        IF interestRange > 0
        THEN TenTimesOneMinus(res.TotalInterest - minPossibleInterest,
                              interestRange)
        ELSE 0
      paymentScore ==
        IF paymentRange > 0
        THEN TenTimesOneMinus(res.MonthlyPayment - perMaxTerm, paymentRange)
        ELSE 0
      termRange == in.MaxTermMonths - in.MinTermMonths
  IN IF termRange = 0 THEN NaN
     ELSE LET termScore == TenTimesOneMinus(t - in.MinTermMonths, termRange)
              score ==
                CASE in.Preference = "minimize_interest" ->
                       RoundDiv(6 * interestScore + 2 * paymentScore
                                + 2 * termScore, 10)
                  [] in.Preference = "minimize_payment" ->
                       RoundDiv(2 * interestScore + 6 * paymentScore
                                + 2 * termScore, 10)
                  [] in.Preference = "balanced" ->
                       RoundDiv(4 * interestScore + 4 * paymentScore
                                + 2 * termScore, 10)
                  [] OTHER -> 0
          IN Score(roundTo2Decimals(score))

\* TermRecommendationService.generateReason: the sentence, by its subject.
generateReason(in) ==
  IF in.Preference \in Preferences THEN in.Preference ELSE "parametros"

\* TermRecommendationService.generateTermExplanation: the sentence chosen
\* and the numbers it is formatted from.
generateTermExplanation(amount, t, monthlyPayment, totalInterest, pref) ==
  [Sentence |-> IF pref \in {"minimize_interest", "minimize_payment"}
                THEN pref ELSE "balanced",
   Term |-> t, MonthlyPayment |-> monthlyPayment,
   TotalInterest |-> totalInterest,
   TotalCost |-> AmountUnits(amount) + totalInterest]

\* The outcome of an iteration that has no filter on the instalment.
TermOutcomeUnfiltered(in, t) ==
  IF ValidateLoan(LoanInput(in.Amount, in.InterestRate, t)) # "" THEN "error"
  ELSE "kept"

\* What one iteration of RecommendTerm's loop does with the outcome of
\* CalculateLoan for term t: "error" (logged, skipped), "filtered" (the
\* instalment is above the maximum) or "kept".
TermOutcome(in, t) ==
  LET loanInput == LoanInput(in.Amount, in.InterestRate, t)
  IN IF ValidateLoan(loanInput) # "" THEN "error"
     ELSE IF ComputeLoan(loanInput).MonthlyPayment
               > ToUnits(in.MaxMonthlyPayment)
       THEN "filtered"
     ELSE "kept"

\* The domain.TermRecommendation appended for a kept term.
Recommendation(in, t) ==
  LET res == ComputeLoan(LoanInput(in.Amount, in.InterestRate, t))
  IN [TermMonths |-> t, MonthlyPayment |-> res.MonthlyPayment,
      TotalInterest |-> res.TotalInterest,
      Score |-> calculateScore(res, in, t),
      Reason |-> generateReason(in)]

\* sort.Slice with less(i, j) = Score[i] > Score[j], for a list of at most
\* twelve elements: an insertion sort.
RECURSIVE InsertionStep(_, _)
InsertionStep(s, j) ==
  IF j > 1 /\ ScoreGreater(s[j].Score, s[j - 1].Score)
  THEN InsertionStep([s EXCEPT ![j] = s[j - 1], ![j - 1] = s[j]], j - 1)
  ELSE s

RECURSIVE InsertionSort(_, _)
InsertionSort(s, i) ==
  IF i > Len(s) THEN s ELSE InsertionSort(InsertionStep(s, i), i + 1)

SortByScore(s) == InsertionSort(s, 2)

\* s with the elements at i and i + 1 exchanged.
Exchanged(s, i) == [s EXCEPT ![i] = s[i + 1], ![i + 1] = s[i]]

\* Neither element is before the other for less.
EqualForLess(x, y) ==
  ~ScoreGreater(x.Score, y.Score) /\ ~ScoreGreater(y.Score, x.Score)

\* What sort.Slice can leave in the list.  Up to twelve elements it sorts by
\* insertion.  Above, it is a quicksort that promises no order between
\* elements equal for less: of those orders the model draws the one that
\* keeps the order of insertion, and the ones with two neighbours of equal
\* score exchanged.
SortOutcomes(s) ==
  LET kept == SortByScore(s)
  IN IF Len(s) <= 12 THEN {kept}
     ELSE {kept}
          \cup { Exchanged(kept, i) :
                   i \in { k \in 1..(Len(s) - 1) :
                             EqualForLess(kept[k], kept[k + 1]) } }

\* The loop over the sorted list that writes every Reason.
WithExplanations(in, s) ==
  [i \in 1..Len(s) |->
     [s[i] EXCEPT !.Reason =
        generateTermExplanation(in.Amount, s[i].TermMonths,
                                s[i].MonthlyPayment, s[i].TotalInterest,
                                in.Preference)]]

\* The term ranges drawn: valid ones of span 0, 3 and MaxSpan, one of
\* thirteen terms, and one for each way a range is refused.
TermRanges ==
  { <<1, 1>>, <<3, 6>>, <<1, 1 + MaxSpan>>, <<1, 13>>, <<0, 1>>, <<2, 1>>,
    <<MaxTermMonths, MaxTermMonths + 1>>, <<1, MaxTermRangeMonths + 2>> }

TermAmounts == { Amount(0, 0), Amount(12, 0), Amount(MaxLoanAmount + 1, 0) }

TermRates == {-1, 0, 12, 24, MaxInterestRate + 1}

MaxPayments == {0, 1, 3, 13}

TermInputs ==
  { TermInput(a, r, range[1], range[2], p, pref) :
      a \in TermAmounts, r \in TermRates, range \in TermRanges,
      p \in MaxPayments, pref \in Preferences \cup {"cheapest"} }

\* ------------------------------------------------------------ HTTP handler
StatusOK == 200
StatusBadRequest == 400
StatusMethodNotAllowed == 405
StatusUnsupportedMediaType == 415

\* The zero value of domain.LoanInput.
ZeroLoanInput == LoanInput(Amount(0, 0), 0, 0)

\* What LoanHandler.CalculateLoan reads of an http.Request: the method, the
\* Content-Type header ("" when the request carries none) and the body.
HttpRequest(method, contentType, body) ==
  [Method |-> method, ContentType |-> contentType, Body |-> body]

\* A body that is no JSON value.
MalformedBody == [Kind |-> "malformed", Keys |-> "", Loan |-> ZeroLoanInput]

\* A body that is a JSON object holding the three numbers of loan under the
\* keys given: "fields" for the names of the fields of domain.LoanInput,
\* "monto" for the keys monto, tasa_anual, plazo_meses of the tests.
JsonBody(keys, loan) == [Kind |-> "object", Keys |-> keys, Loan |-> loan]

\* json.NewDecoder(r.Body).Decode(&input): an error for a malformed body;
\* domain.LoanInput has no json tags, so a key fills the field of its name and
\* any other key is ignored, leaving the field zero.
Decode(body) ==
  IF body.Kind = "malformed"
  THEN [err |-> "invalid character", input |-> ZeroLoanInput]
  ELSE [err |-> "",
        input |-> IF body.Keys = "fields" THEN body.Loan ELSE ZeroLoanInput]

\* The header values drawn, and those that contain "application/json".
ContentTypes ==
  {"", "application/json", "application/json; charset=utf-8", "text/plain",
   "Application/JSON"}

ContainsJSON(contentType) ==
  contentType \in {"application/json", "application/json; charset=utf-8"}

\* strings.Contains(contentType, "application/json")
AcceptsContentType(contentType) == ContainsJSON(contentType)

HttpMethods == {"GET", "POST", "PUT"}

HttpBodies ==
  {MalformedBody}
  \cup { JsonBody(keys, loan) :
           keys \in {"fields", "monto"},
           loan \in { LoanInput(Amount(100, 0), 12, 12),
                      LoanInput(Amount(100, 0), 0, 12),
                      LoanInput(Amount(0, 0), 12, 12),
                      LoanInput(Amount(100, 0), -1, 12),
                      LoanInput(Amount(100, 0), 12, MaxTermMonths + 1) } }

HttpRequests ==
  { HttpRequest(m, ct, b) :
      m \in HttpMethods, ct \in ContentTypes, b \in HttpBodies }

\* The response of a handler that has not answered.
NoResponse == [Status |-> 0, Body |-> ""]

\* ------------------------------------------------------------ rate limiter
\* Time is counted in cleanup intervals (half hours).
cleanupInterval == 1
bucketCleanupThreshold == 2

\* The goroutines that call Allow, and the client keys they call it with.
Callers == 1..MaxCallers
Clients == {"10.0.0.1", "10.0.0.2"}

\* The arguments NewRateLimiter is called with.
Capacities == 0..2
RefillDurs == {cleanupInterval, 2 * bucketCleanupThreshold}

\* The holder of the mutex when no goroutine holds it, and the cleanup
\* goroutine as a holder.
Unlocked == 0
Cleaner == MaxCallers + 1

\* r.mu.Lock() returns when no goroutine holds the mutex.
CanLock(holder) == holder = Unlocked

\* A clientBucket.
Bucket(tokens, lastRefill) == [tokens |-> tokens, lastRefill |-> lastRefill]

\* The body of Allow for key ip at time now, on the table clients: the table
\* it leaves and the value it returns.
AllowBody(clients, capacity, refillDur, ip, now) ==
  IF ip \notin DOMAIN clients
  THEN [clients |-> [c \in DOMAIN clients \cup {ip} |->
                       IF c = ip THEN Bucket(capacity - 1, now)
                       ELSE clients[c]],
        allowed |-> TRUE]
  ELSE LET bucket == clients[ip]
           refilled == IF now - bucket.lastRefill >= refillDur
                       THEN Bucket(capacity, now)
                       ELSE bucket
       IN IF refilled.tokens <= 0
          THEN [clients |-> [clients EXCEPT ![ip] = refilled],
                allowed |-> FALSE]
          ELSE [clients |->
                  [clients EXCEPT
                     ![ip] = Bucket(refilled.tokens - 1, refilled.lastRefill)],
                allowed |-> TRUE]

\* The loop of cleanup at time now: the table without the buckets last
\* refilled more than bucketCleanupThreshold ago.
Swept(clients, now) ==
  [c \in { k \in DOMAIN clients :
             ~(now - clients[k].lastRefill > bucketCleanupThreshold) } |->
     clients[c]]

\* The period of a client that Allow has not been called for.
NoPeriod == [seen |-> FALSE, first |-> FALSE, start |-> 0, calls |-> 0,
             grants |-> 0, sinceRefill |-> 0]

\* The call of Allow for key ip at time now creates the bucket or refills it.
Fresh(clients, refillDur, ip, now) ==
  \/ ip \notin DOMAIN clients
  \/ now - clients[ip].lastRefill >= refillDur

\* The period of a client after a call of Allow at time now that returned
\* allowed.  A period starts with the first call for the client and with
\* every call at least refillDur after the start of the period before; it
\* counts the calls made in it and those that returned true; sinceRefill
\* counts the calls that returned true since the bucket was last created or
\* refilled (fresh: by this call).
PeriodAfter(period, refillDur, now, allowed, fresh) ==
  LET one == IF allowed THEN 1 ELSE 0
      since == IF fresh THEN one ELSE period.sinceRefill + one
  IN IF ~period.seen
     THEN [seen |-> TRUE, first |-> TRUE, start |-> now, calls |-> 1,
           grants |-> one, sinceRefill |-> since]
     ELSE IF now - period.start >= refillDur
     THEN [seen |-> TRUE, first |-> FALSE, start |-> now, calls |-> 1,
           grants |-> one, sinceRefill |-> since]
     ELSE [period EXCEPT !.calls = @ + 1, !.grants = @ + one,
                         !.sinceRefill = since]

\* ------------------------------------------------------------------- state
VARIABLES
  input,              \* the DebtExitInput of the call
  pc,                 \* "call", "loop", "ret", "done"
  strategy,           \* calculateStrategy's strategy argument
  debts,              \* calculateStrategy's sorted copy of input.Debts
  balances,           \* name -> remaining balance, in units
  monthlyPlan,        \* the ledger of the run
  totalInterestPaid,  \* running sum of the accrued interest, in units
  month,              \* the loop counter
  step,               \* what the last loop iteration did (observation only)
  warned,             \* strategies whose run logged the months-limit warning
  runs,               \* number of calculateStrategy calls started
  snowballResult,     \* compare mode: the first run's result
  result,             \* the DebtExitResult returned
  err,                \* the error returned ("" is nil)
  previous,           \* what the call before this one returned, if any
  loanInput,          \* the domain.LoanInput of the CalculateLoan call
  loanPc,             \* "idle", "call", "done"
  loanResult,         \* the domain.LoanResult returned
  loanErr,            \* the error returned ("" is nil)
  saveCalls,          \* number of calls of the repository's Save
  saveFailures,       \* number of those that returned an error (each logged)
  forceError,         \* MockLoanRepository.ForceError
  termInput,          \* the domain.TermRecommendationInput of the call
  termPc,             \* "idle", "call", "loop", "done"
  term,               \* RecommendTerm's loop variable
  recommendations,    \* RecommendTerm's list
  skipped,            \* terms whose CalculateLoan call returned an error
  termResult,         \* the domain.TermRecommendationResult returned
  termErr,            \* the error returned ("" is nil)
  httpRequest,        \* the request LoanHandler.CalculateLoan serves
  httpPc,             \* "idle", "serve", "done"
  httpResponse,       \* the status and the body written
  capacity,           \* RateLimiter.capacity
  refillDur,          \* RateLimiter.refillDur
  mu,                 \* the holder of RateLimiter.mu, Unlocked for none
  clients,            \* RateLimiter.clients: key -> clientBucket
  clock,              \* the time time.Now() returns
  cleanupDue,         \* the ticker of cleanupLoop has a tick to deliver
  callerPc,           \* caller -> "idle", "lock", "body", "true", "false"
  callerIp,           \* caller -> the key of its call
  callerNow,          \* caller -> the time its call read
  cleanerPc,          \* cleanupLoop: "idle", "wait", "sweep"
  callsMade,          \* number of calls of Allow started
  periods             \* key -> the calls and the grants of its period

\* The variables no step of CalculateDebtExitPlan touches: those of
\* CalculateLoan and its repository, and those of RecommendTerm.
loanVars ==
  <<loanInput, loanPc, loanResult, loanErr, saveCalls, saveFailures,
    forceError>>

termVars ==
  <<termInput, termPc, term, recommendations, skipped, termResult, termErr>>

handlerVars == <<httpRequest, httpPc, httpResponse>>

limiterVars ==
  <<capacity, refillDur, mu, clients, clock, cleanupDue, callerPc, callerIp,
    callerNow, cleanerPc, callsMade, periods>>

restVars == <<handlerVars, limiterVars>>

otherVars == <<previous, loanVars, termVars, restVars>>

vars == <<input, pc, strategy, debts, balances, monthlyPlan, totalInterestPaid,
          month, step, warned, runs, snowballResult, result, err, otherVars>>

\* The zero value of domain.DebtExitResult.
EmptyResult ==
  [Strategy |-> "", TotalDebt |-> 0, TotalInterestPaid |-> 0,
   MonthsToPayoff |-> 0, MonthlyPlan |-> <<>>, Comparison |-> "nil",
   Explanation |-> ""]

NoStep ==
  [interest |-> <<>>, start |-> <<>>, afterMin |-> <<>>, availAfterMin |-> 0,
   minPayments |-> <<>>, target |-> "", extra |-> 0]

\* No request is being served.
HandlerIdle ==
  /\ httpRequest = HttpRequest("", "", MalformedBody)
  /\ httpPc = "idle"
  /\ httpResponse = NoResponse

\* No rate limiter has been made.
LimiterIdle ==
  /\ capacity = 0
  /\ refillDur = 0
  /\ mu = Unlocked
  /\ clients = <<>>
  /\ clock = 0
  /\ cleanupDue = FALSE
  /\ callerPc = [p \in Callers |-> "idle"]
  /\ callerIp = [p \in Callers |-> ""]
  /\ callerNow = [p \in Callers |-> 0]
  /\ cleanerPc = "idle"
  /\ callsMade = 0
  /\ periods = [c \in Clients |-> NoPeriod]

RestIdle == HandlerIdle /\ LimiterIdle

\* No call of CalculateLoan is under way, and none of RecommendTerm.
LoanIdle ==
  /\ loanInput = LoanInput(Amount(0, 0), 0, 0)
  /\ loanPc = "idle"
  /\ loanResult = ZeroLoanResult
  /\ loanErr = ""
  /\ saveCalls = 0
  /\ saveFailures = 0

TermIdle ==
  /\ termInput = TermInput(Amount(0, 0), 0, 0, 0, 0, "")
  /\ termPc = "idle"
  /\ term = 0
  /\ recommendations = <<>>
  /\ skipped = {}
  /\ termResult = ZeroTermResult
  /\ termErr = ""

Requests ==
  { Request(ds, b, s) :
      ds \in DebtLists \cup {TooManyDebts}, b \in Budgets, s \in Strategies }
  \cup ScenarioRequests

Init ==
  /\ input \in Requests
  /\ pc = "call"
  /\ strategy = ""
  /\ debts = <<>>
  /\ balances = <<>>
  /\ monthlyPlan = <<>>
  /\ totalInterestPaid = 0
  /\ month = 0
  /\ step = NoStep
  /\ warned = {}
  /\ runs = 0
  /\ snowballResult = EmptyResult
  /\ result = EmptyResult
  /\ err = ""
  /\ previous = <<>>
  /\ LoanIdle
  /\ forceError = FALSE
  /\ TermIdle
  /\ RestIdle

\* A run that sorts the slice the run before it has left (no copy of
\* input.Debts is taken).
StartRunInPlace(strat) ==
  /\ strategy' = strat
  /\ debts' = SortDebts(IF runs = 0 THEN input.Debts ELSE debts, strat)
  /\ balances' = InitialBalances(input.Debts)
  /\ monthlyPlan' = <<>>
  /\ totalInterestPaid' = 0
  /\ month' = 0
  /\ step' = NoStep
  /\ runs' = runs + 1

Reverse(s) == [i \in 1..Len(s) |-> s[Len(s) + 1 - i]]

\* A run whose sort meets the debts in an order that changes from one run to
\* the next, so that debts with equal keys end up in a changing order.
StartRunTiesByCall(strat) ==
  /\ strategy' = strat
  /\ debts' = SortDebts(IF runs % 2 = 0 THEN input.Debts
                        ELSE Reverse(input.Debts), strat)
  /\ balances' = InitialBalances(input.Debts)
  /\ monthlyPlan' = <<>>
  /\ totalInterestPaid' = 0
  /\ month' = 0
  /\ step' = NoStep
  /\ runs' = runs + 1

\* The start of calculateStrategy: the sorted copy, the balance table, the
\* empty ledger.
StartRun(strat) ==
  /\ strategy' = strat
  /\ debts' = SortDebts(input.Debts, strat)
  /\ balances' = InitialBalances(input.Debts)
  /\ monthlyPlan' = <<>>
  /\ totalInterestPaid' = 0
  /\ month' = 0
  /\ step' = NoStep
  /\ runs' = runs + 1

\* CalculateDebtExitPlan returns a validation error.
Reject ==
  /\ pc = "call"
  /\ Validate(input) # ""
  /\ err' = Validate(input)
  /\ result' = EmptyResult
  /\ pc' = "done"
  /\ UNCHANGED <<input, strategy, debts, balances, monthlyPlan,
                 totalInterestPaid, month, step, warned, runs, snowballResult>>
  /\ UNCHANGED otherVars

\* The input passes validation and the first (or only) run starts.
Accept ==
  /\ pc = "call"
  /\ Validate(input) = ""
  /\ StartRun(IF input.Strategy = "compare" THEN "snowball" ELSE input.Strategy)
  /\ pc' = "loop"
  /\ UNCHANGED <<input, warned, snowballResult, result, err>>
  /\ UNCHANGED otherVars

\* The interest loop and the minimum-payment loop of a month that starts
\* with the balances bal.
AfterMinimums(ds, bal, budget) ==
  { [interestMap |-> im,
     st |-> MinimumPhase(ds, im, 1,
              [bal |-> bal, payments |-> <<>>,
               available |-> budget, totalPaid |-> 0])] :
      im \in {InterestMap(ds, bal)} }

\* What month m leaves behind: the interest accrued, the balances, the ledger
\* entry, the allPaid flag, and the observation of the month.
MonthOutcome(ds, bal, m, interestMap, st1, st2) ==
  [interest |-> SumInterest(ds, interestMap, 1),
   bal |-> st2.bal,
   entry |-> [Month |-> m, Payments |-> st2.payments,
              TotalPaid |-> roundTo2Decimals(st2.totalPaid)],
   allPaid |-> AllPaid(ds, st2.bal),
   step |-> [interest |-> interestMap, start |-> bal,
             afterMin |-> st1.bal, availAfterMin |-> st1.available,
             minPayments |-> st1.payments,
             target |-> st2.target, extra |-> st2.extra]]

\* The body of the month loop in month m, from the balances bal (a set of
\* one outcome).
LoopBody(ds, bal, budget, m) ==
  UNION { { MonthOutcome(ds, bal, m, a.interestMap, a.st, st2) :
              st2 \in {SurplusPhase(ds, a.st)} } :
          a \in AfterMinimums(ds, bal, budget) }

\* One iteration of the month loop.
Month ==
  /\ pc = "loop"
  /\ month < MonthCap
  /\ \E it \in LoopBody(debts, balances, input.AvailableMonthlyPayment,
                       month + 1) :
        /\ month' = month + 1
        /\ totalInterestPaid' = totalInterestPaid + it.interest
        /\ balances' = it.bal
        /\ monthlyPlan' = Append(monthlyPlan, it.entry)
        /\ step' = it.step
        /\ pc' = IF it.allPaid \/ CeilingReached(month + 1)
                 THEN "ret" ELSE "loop"
        /\ warned' = IF ~it.allPaid /\ CeilingReached(month + 1)
                     THEN warned \cup {strategy} ELSE warned
  /\ UNCHANGED <<input, strategy, debts, runs, snowballResult, result, err>>
  /\ UNCHANGED otherVars

\* The DebtExitResult calculateStrategy returns.
RunResult ==
  [Strategy |-> strategy,
   TotalDebt |-> roundTo2Decimals(SumAmounts(input.Debts, 1)),
   TotalInterestPaid |-> roundTo2Decimals(totalInterestPaid),
   MonthsToPayoff |-> month,
   MonthlyPlan |-> monthlyPlan,
   Comparison |-> "nil",
   Explanation |-> ""]

\* calculateStrategy as a function of its arguments.  A run between two months:
\* the balance table, the accrued interest, the ledger, the month counter, and
\* whether the loop has been left.
RunStart(in) ==
  [bal |-> InitialBalances(in.Debts), interest |-> 0, plan |-> <<>>,
   month |-> 0, over |-> FALSE]

\* One iteration of the month loop, on a run.
RunMonth(ds, budget, rs) ==
  IF rs.over THEN rs
  ELSE CHOOSE r \in
         { [bal |-> it.bal,
            interest |-> rs.interest + it.interest,
            plan |-> Append(rs.plan, it.entry),
            month |-> rs.month + 1,
            over |-> it.allPaid \/ CeilingReached(rs.month + 1)] :
           it \in LoopBody(ds, rs.bal, budget, rs.month + 1) } : TRUE

\* Up to n iterations of the month loop (the count is halved, to keep the
\* evaluation shallow).
RECURSIVE RunMonths(_, _, _, _)
RunMonths(ds, budget, rs, n) ==
  IF rs.over \/ n = 0 THEN rs
  ELSE IF n = 1 THEN RunMonth(ds, budget, rs)
  ELSE CHOOSE r \in
         { RunMonths(ds, budget, half, n - n \div 2) :
           half \in {RunMonths(ds, budget, rs, n \div 2)} } : TRUE

calculateStrategy(in, strat) ==
  LET end == CHOOSE r \in
               { RunMonths(ds, in.AvailableMonthlyPayment, RunStart(in),
                           MonthCap) :
                 ds \in {SortDebts(in.Debts, strat)} } : TRUE
  IN [Strategy |-> strat,
      TotalDebt |-> roundTo2Decimals(SumAmounts(in.Debts, 1)),
      TotalInterestPaid |-> roundTo2Decimals(end.interest),
      MonthsToPayoff |-> end.month,
      MonthlyPlan |-> end.plan,
      Comparison |-> "nil",
      Explanation |-> ""]

\* generateDebtExplanation's text, as the values it is built from.
Explained(r) ==
  [r EXCEPT !.Explanation =
     <<r.Strategy, r.TotalDebt, r.TotalInterestPaid, r.MonthsToPayoff>>]

PrimaryAlwaysSnowball(snowball, avalanche) == snowball

\* Compare mode's choice of the primary result.
Primary(snowball, avalanche) ==
  IF avalanche.TotalInterestPaid < snowball.TotalInterestPaid
  THEN avalanche ELSE snowball

\* The interest difference recorded as it comes, with no floor at 0.
CompareRecordSigned(snowball, avalanche) ==
  [Snowball |-> [TotalInterestPaid |-> snowball.TotalInterestPaid,
                 MonthsToPayoff |-> snowball.MonthsToPayoff],
   Avalanche |-> [TotalInterestPaid |-> avalanche.TotalInterestPaid,
                  MonthsToPayoff |-> avalanche.MonthsToPayoff],
   Savings |-> [InterestSaved |-> roundTo2Decimals(
                   snowball.TotalInterestPaid - avalanche.TotalInterestPaid),
                MonthsSaved |-> snowball.MonthsToPayoff
                                - avalanche.MonthsToPayoff]]

\* The domain.Comparison of compare mode.
CompareRecord(snowball, avalanche) ==
  [Snowball |-> [TotalInterestPaid |-> snowball.TotalInterestPaid,
                 MonthsToPayoff |-> snowball.MonthsToPayoff],
   Avalanche |-> [TotalInterestPaid |-> avalanche.TotalInterestPaid,
                  MonthsToPayoff |-> avalanche.MonthsToPayoff],
   Savings |-> [InterestSaved |-> roundTo2Decimals(
                   Max2(0, snowball.TotalInterestPaid
                           - avalanche.TotalInterestPaid)),
                MonthsSaved |-> snowball.MonthsToPayoff
                                - avalanche.MonthsToPayoff]]

\* A single-strategy call returns its run's result.
ReturnSingle ==
  /\ pc = "ret"
  /\ input.Strategy # "compare"
  /\ result' = Explained(RunResult)
  /\ err' = ""
  /\ pc' = "done"
  /\ UNCHANGED <<input, strategy, debts, balances, monthlyPlan,
                 totalInterestPaid, month, step, warned, runs, snowballResult>>
  /\ UNCHANGED otherVars

\* Compare mode: the snowball run returns and the avalanche run starts.
ReturnSnowball ==
  /\ pc = "ret"
  /\ input.Strategy = "compare"
  /\ strategy = "snowball"
  /\ snowballResult' = RunResult
  /\ StartRun("avalanche")
  /\ pc' = "loop"
  /\ UNCHANGED <<input, warned, result, err>>
  /\ UNCHANGED otherVars

\* Compare mode: the avalanche run returns and the call returns.
ReturnAvalanche ==
  /\ pc = "ret"
  /\ input.Strategy = "compare"
  /\ strategy = "avalanche"
  /\ result' = Explained(
       [Primary(snowballResult, RunResult) EXCEPT
          !.Comparison = CompareRecord(snowballResult, RunResult)])
  /\ err' = ""
  /\ pc' = "done"
  /\ UNCHANGED <<input, strategy, debts, balances, monthlyPlan,
                 totalInterestPaid, month, step, warned, runs, snowballResult>>
  /\ UNCHANGED otherVars

Next == Reject \/ Accept \/ Month \/ ReturnSingle \/ ReturnSnowball
        \/ ReturnAvalanche

Spec == Init /\ [][Next]_vars

\* The call runs to its return: no step of it waits for anything.
FairSpec == Spec /\ WF_vars(Next)

\* The caller calls CalculateDebtExitPlan once more, with the same input.
CallAgain ==
  /\ pc = "done"
  /\ previous = <<>>
  /\ previous' = <<[result |-> result, err |-> err]>>
  /\ result' = EmptyResult
  /\ err' = ""
  /\ pc' = "call"
  /\ UNCHANGED <<input, strategy, debts, balances, monthlyPlan,
                 totalInterestPaid, month, step, warned, runs, snowballResult>>
  /\ UNCHANGED <<loanVars, termVars, restVars>>

NextTwice == Next \/ CallAgain

\* Two calls with the same input, one after the other.
TwiceSpec == Init /\ [][NextTwice]_vars

\* --------------------------------------------------- CalculateLoan, a call
\* No call of CalculateDebtExitPlan is under way.
DebtIdle ==
  /\ input = Request(<<>>, 0, "")
  /\ pc = "idle"
  /\ strategy = ""
  /\ debts = <<>>
  /\ balances = <<>>
  /\ monthlyPlan = <<>>
  /\ totalInterestPaid = 0
  /\ month = 0
  /\ step = NoStep
  /\ warned = {}
  /\ runs = 0
  /\ snowballResult = EmptyResult
  /\ result = EmptyResult
  /\ err = ""
  /\ previous = <<>>

debtVars ==
  <<input, pc, strategy, debts, balances, monthlyPlan, totalInterestPaid,
    month, step, warned, runs, snowballResult, result, err, previous>>

LoanInit ==
  /\ DebtIdle
  /\ TermIdle
  /\ RestIdle
  /\ loanInput \in LoanInputs
  /\ loanPc = "call"
  /\ loanResult = ZeroLoanResult
  /\ loanErr = ""
  /\ saveCalls = 0
  /\ saveFailures = 0
  /\ forceError \in BOOLEAN

\* CalculateLoan returns a validation error.
LoanReject ==
  /\ loanPc = "call"
  /\ ValidateLoan(loanInput) # ""
  /\ loanResult' = ZeroLoanResult
  /\ loanErr' = ValidateLoan(loanInput)
  /\ loanPc' = "done"
  /\ UNCHANGED <<loanInput, saveCalls, saveFailures, forceError>>
  /\ UNCHANGED <<debtVars, termVars, restVars>>

\* CalculateLoan computes the result, hands it to Save and returns.
LoanAccept ==
  /\ loanPc = "call"
  /\ ValidateLoan(loanInput) = ""
  /\ LET saveErr == Save(forceError)
         out == AfterSave(ComputeLoan(loanInput), saveErr)
     IN /\ saveCalls' = saveCalls + 1
        /\ saveFailures' = saveFailures + (IF saveErr # "" THEN 1 ELSE 0)
        /\ loanResult' = out.result
        /\ loanErr' = out.err
  /\ loanPc' = "done"
  /\ UNCHANGED <<loanInput, forceError>>
  /\ UNCHANGED <<debtVars, termVars, restVars>>

LoanNext == LoanReject \/ LoanAccept

LoanSpec == LoanInit /\ [][LoanNext]_vars

\* --------------------------------------------------- RecommendTerm, a call
TermInit ==
  /\ DebtIdle
  /\ LoanIdle
  /\ RestIdle
  /\ forceError \in BOOLEAN
  /\ termInput \in TermInputs
  /\ termPc = "call"
  /\ term = 0
  /\ recommendations = <<>>
  /\ skipped = {}
  /\ termResult = ZeroTermResult
  /\ termErr = ""

\* RecommendTerm returns a validation error.
TermReject ==
  /\ termPc = "call"
  /\ ValidateTermInput(termInput) # ""
  /\ termResult' = ZeroTermResult
  /\ termErr' = ValidateTermInput(termInput)
  /\ termPc' = "done"
  /\ UNCHANGED <<termInput, term, recommendations, skipped>>
  /\ UNCHANGED <<debtVars, loanVars, restVars>>

\* The input is valid: the loop starts at the smallest term.
TermAccept ==
  /\ termPc = "call"
  /\ ValidateTermInput(termInput) = ""
  /\ term' = termInput.MinTermMonths
  /\ recommendations' = <<>>
  /\ termPc' = "loop"
  /\ UNCHANGED <<termInput, skipped, termResult, termErr>>
  /\ UNCHANGED <<debtVars, loanVars, restVars>>

\* One iteration of the loop: CalculateLoan for this term (which saves what
\* it computed), then the filter, the score and the append.
TermStep ==
  /\ termPc = "loop"
  /\ term <= termInput.MaxTermMonths
  /\ LET outcome == TermOutcome(termInput, term)
         saveErr == Save(forceError)
     IN /\ recommendations' =
             IF outcome = "kept"
             THEN Append(recommendations, Recommendation(termInput, term))
             ELSE recommendations
        /\ skipped' = IF outcome = "error" THEN skipped \cup {term}
                      ELSE skipped
        /\ saveCalls' = IF outcome = "error" THEN saveCalls
                        ELSE saveCalls + 1
        /\ saveFailures' =
             IF outcome # "error" /\ saveErr # "" THEN saveFailures + 1
             ELSE saveFailures
  /\ term' = term + 1
  /\ UNCHANGED <<termInput, termPc, termResult, termErr>>
  /\ UNCHANGED <<loanInput, loanPc, loanResult, loanErr, forceError>>
  /\ UNCHANGED <<debtVars, restVars>>

\* After the loop: the sort, the empty-list error, the explanations.
TermReturn ==
  /\ termPc = "loop"
  /\ term > termInput.MaxTermMonths
  /\ \E sorted \in SortOutcomes(recommendations) :
        /\ recommendations' = sorted
        /\ IF Len(sorted) = 0
           THEN /\ termResult' = ZeroTermResult
                /\ termErr' = NoValidTerms
           ELSE /\ termResult' =
                     [RecommendedTerm |-> sorted[1].TermMonths,
                      Recommendations |->
                        WithExplanations(termInput, sorted)]
                /\ termErr' = ""
  /\ termPc' = "done"
  /\ UNCHANGED <<termInput, term, skipped>>
  /\ UNCHANGED <<debtVars, loanVars, restVars>>

TermNext == TermReject \/ TermAccept \/ TermStep \/ TermReturn

TermSpec == TermInit /\ [][TermNext]_vars

\* --------------------------------------- LoanHandler.CalculateLoan, a request
HandlerInit ==
  /\ DebtIdle
  /\ LoanIdle
  /\ TermIdle
  /\ LimiterIdle
  /\ forceError \in BOOLEAN
  /\ httpRequest \in HttpRequests
  /\ httpPc = "serve"
  /\ httpResponse = NoResponse

\* The request is not a POST.
RejectMethod ==
  /\ httpPc = "serve"
  /\ httpRequest.Method # "POST"
  /\ httpResponse' =
       [Status |-> StatusMethodNotAllowed, Body |-> "method not allowed"]
  /\ httpPc' = "done"
  /\ UNCHANGED <<httpRequest, debtVars, loanVars, termVars, limiterVars>>

\* A POST whose Content-Type does not contain application/json.
RejectContentType ==
  /\ httpPc = "serve"
  /\ httpRequest.Method = "POST"
  /\ ~AcceptsContentType(httpRequest.ContentType)
  /\ httpResponse' =
       [Status |-> StatusUnsupportedMediaType,
        Body |-> "Content-Type must be application/json"]
  /\ httpPc' = "done"
  /\ UNCHANGED <<httpRequest, debtVars, loanVars, termVars, limiterVars>>

\* The body does not decode.
RejectBody ==
  /\ httpPc = "serve"
  /\ httpRequest.Method = "POST"
  /\ AcceptsContentType(httpRequest.ContentType)
  /\ Decode(httpRequest.Body).err # ""
  /\ httpResponse' =
       [Status |-> StatusBadRequest, Body |-> "invalid request body"]
  /\ httpPc' = "done"
  /\ UNCHANGED <<httpRequest, debtVars, loanVars, termVars, limiterVars>>

\* The service refuses the loan decoded.
RejectLoan ==
  /\ httpPc = "serve"
  /\ httpRequest.Method = "POST"
  /\ AcceptsContentType(httpRequest.ContentType)
  /\ Decode(httpRequest.Body).err = ""
  /\ ValidateLoan(Decode(httpRequest.Body).input) # ""
  /\ httpResponse' =
       [Status |-> StatusBadRequest,
        Body |-> ValidateLoan(Decode(httpRequest.Body).input)]
  /\ httpPc' = "done"
  /\ UNCHANGED <<httpRequest, debtVars, loanVars, termVars, limiterVars>>

\* The service computes the loan (and saves it); the result is the response.
RespondLoan ==
  /\ httpPc = "serve"
  /\ httpRequest.Method = "POST"
  /\ AcceptsContentType(httpRequest.ContentType)
  /\ Decode(httpRequest.Body).err = ""
  /\ ValidateLoan(Decode(httpRequest.Body).input) = ""
  /\ LET saveErr == Save(forceError)
         out == AfterSave(ComputeLoan(Decode(httpRequest.Body).input),
                          saveErr)
     IN /\ saveCalls' = saveCalls + 1
        /\ saveFailures' = saveFailures + (IF saveErr # "" THEN 1 ELSE 0)
        /\ httpResponse' = [Status |-> StatusOK, Body |-> out.result]
  /\ httpPc' = "done"
  /\ UNCHANGED <<httpRequest, loanInput, loanPc, loanResult, loanErr,
                 forceError, debtVars, termVars, limiterVars>>

HandlerNext ==
  RejectMethod \/ RejectContentType \/ RejectBody \/ RejectLoan
  \/ RespondLoan

HandlerSpec == HandlerInit /\ [][HandlerNext]_vars

\* ------------------------------------------- RateLimiter, callers and cleanup
LimiterInit ==
  /\ DebtIdle
  /\ LoanIdle
  /\ forceError = FALSE
  /\ TermIdle
  /\ HandlerIdle
  /\ capacity \in Capacities
  /\ refillDur \in RefillDurs
  /\ mu = Unlocked
  /\ clients = <<>>
  /\ clock = 0
  /\ cleanupDue = FALSE
  /\ callerPc = [p \in Callers |-> "idle"]
  /\ callerIp = [p \in Callers |-> ""]
  /\ callerNow = [p \in Callers |-> 0]
  /\ cleanerPc = "wait"
  /\ callsMade = 0
  /\ periods = [c \in Clients |-> NoPeriod]

notLimiterVars == <<debtVars, loanVars, termVars, handlerVars>>

\* Time passes by one cleanup interval: the ticker of cleanupLoop fires.
Tick ==
  /\ clock < MaxClock
  /\ clock' = clock + cleanupInterval
  /\ cleanupDue' = TRUE
  /\ UNCHANGED <<capacity, refillDur, mu, clients, callerPc, callerIp,
                 callerNow, cleanerPc, callsMade, periods>>
  /\ UNCHANGED notLimiterVars

\* A goroutine calls Allow(ip) and reaches r.mu.Lock().
AllowCall(p, ip) ==
  /\ callerPc[p] = "idle"
  /\ callsMade < MaxCalls
  /\ callsMade' = callsMade + 1
  /\ callerPc' = [callerPc EXCEPT ![p] = "lock"]
  /\ callerIp' = [callerIp EXCEPT ![p] = ip]
  /\ UNCHANGED <<capacity, refillDur, mu, clients, clock, cleanupDue,
                 callerNow, cleanerPc, periods>>
  /\ UNCHANGED notLimiterVars

\* r.mu.Lock() returns, and the goroutine reads the time.
AllowLock(p) ==
  /\ callerPc[p] = "lock"
  /\ CanLock(mu)
  /\ mu' = p
  /\ callerNow' = [callerNow EXCEPT ![p] = clock]
  /\ callerPc' = [callerPc EXCEPT ![p] = "body"]
  /\ UNCHANGED <<capacity, refillDur, clients, clock, cleanupDue, callerIp,
                 cleanerPc, callsMade, periods>>
  /\ UNCHANGED notLimiterVars

\* Lines 72 to 92: the look-up, the refill, the token taken.
AllowRun(p) ==
  /\ callerPc[p] = "body"
  /\ LET out == AllowBody(clients, capacity, refillDur, callerIp[p],
                          callerNow[p])
     IN /\ clients' = out.clients
        /\ periods' =
             [periods EXCEPT
                ![callerIp[p]] =
                  PeriodAfter(@, refillDur, callerNow[p], out.allowed,
                              Fresh(clients, refillDur, callerIp[p],
                                    callerNow[p]))]
        /\ callerPc' =
             [callerPc EXCEPT
                ![p] = IF out.allowed THEN "true" ELSE "false"]
  /\ UNCHANGED <<capacity, refillDur, mu, clock, cleanupDue, callerIp,
                 callerNow, cleanerPc, callsMade>>
  /\ UNCHANGED notLimiterVars

\* The deferred r.mu.Unlock(), and the return.
AllowReturn(p) ==
  /\ callerPc[p] \in {"true", "false"}
  /\ mu' = IF mu = p THEN Unlocked ELSE mu
  /\ callerPc' = [callerPc EXCEPT ![p] = "idle"]
  /\ UNCHANGED <<capacity, refillDur, clients, clock, cleanupDue, callerIp,
                 callerNow, cleanerPc, callsMade, periods>>
  /\ UNCHANGED notLimiterVars

\* cleanupLoop receives the tick; cleanup locks the mutex.
CleanupLock ==
  /\ cleanerPc = "wait"
  /\ cleanupDue
  /\ CanLock(mu)
  /\ mu' = Cleaner
  /\ cleanupDue' = FALSE
  /\ cleanerPc' = "sweep"
  /\ UNCHANGED <<capacity, refillDur, clients, clock, callerPc, callerIp,
                 callerNow, callsMade, periods>>
  /\ UNCHANGED notLimiterVars

\* cleanup reads the time, deletes the stale buckets and unlocks.
CleanupSweep ==
  /\ cleanerPc = "sweep"
  /\ clients' = Swept(clients, clock)
  /\ mu' = IF mu = Cleaner THEN Unlocked ELSE mu
  /\ cleanerPc' = "wait"
  /\ UNCHANGED <<capacity, refillDur, clock, cleanupDue, callerPc, callerIp,
                 callerNow, callsMade, periods>>
  /\ UNCHANGED notLimiterVars

LimiterNext ==
  \/ Tick
  \/ \E p \in Callers : \E ip \in Clients : AllowCall(p, ip)
  \/ \E p \in Callers : AllowLock(p) \/ AllowRun(p) \/ AllowReturn(p)
  \/ CleanupLock
  \/ CleanupSweep

LimiterSpec == LimiterInit /\ [][LimiterNext]_vars

\* ------------------------------------------------------------ the contract
\* First-month interest of a debt as the data model defines it:
\* amount * rate/100/12, in units.
FirstMonthInterest(d) == (ToUnits(d.Amount) * d.InterestRate + 600) \div 1200

RECURSIVE SumMinimums(_, _)
SumMinimums(ds, i) ==
  IF i > Len(ds) THEN 0 ELSE ds[i].MinimumPayment + SumMinimums(ds, i + 1)

\* One debt breaks a per-debt rule.
DebtBreaksRule(d) ==
  \/ d.Amount <= 0
  \/ d.Amount > MaxDebtAmount
  \/ d.InterestRate < 0
  \/ d.InterestRate > MaxInterestRate
  \/ d.MinimumPayment <= 0
  \/ ToUnits(d.MinimumPayment) < FirstMonthInterest(d)

\* The request breaks at least one pre-validation rule.
FailsPreValidation(in) ==
  \/ Len(in.Debts) = 0
  \/ Len(in.Debts) > MaxDebtsPerRequest
  \/ in.AvailableMonthlyPayment <= 0
  \/ \E i \in 1..Len(in.Debts) : in.Debts[i].Name = ""
  \/ \E i, j \in 1..Len(in.Debts) : i # j /\ in.Debts[i].Name = in.Debts[j].Name
  \/ in.Strategy \notin {"snowball", "avalanche", "compare"}
  \/ \E i \in 1..Len(in.Debts) : DebtBreaksRule(in.Debts[i])
  \/ ToUnits(SumMinimums(in.Debts, 1)) > in.AvailableMonthlyPayment

\* C1: a request that breaks any pre-validation rule gets an error and the
\* empty result, and no simulation run ever starts for it: calculateStrategy is
\* not called and no ledger month is produced.
C1_InvalidInputNeverSimulated ==
  FailsPreValidation(input) =>
    /\ runs = 0
    /\ month = 0
    /\ monthlyPlan = <<>>
    /\ pc \in {"call", "done"}
    /\ pc = "done" => (err # "" /\ result = EmptyResult)

\* Scenario D: every debt is fine and the budget is below the sum of the
\* minimum payments; the call has returned.
C1_Witness ==
  /\ pc = "done"
  /\ err # ""
  /\ Len(input.Debts) \in 1..MaxDebts
  /\ input.AvailableMonthlyPayment > 0
  /\ input.Strategy = "compare"
  /\ \A i \in 1..Len(input.Debts) :
       input.Debts[i].Name # "" /\ ~DebtBreaksRule(input.Debts[i])
  /\ \A i, j \in 1..Len(input.Debts) :
       i # j => input.Debts[i].Name # input.Debts[j].Name
  /\ ToUnits(SumMinimums(input.Debts, 1)) > input.AvailableMonthlyPayment

RECURSIVE SumPayments(_, _)
SumPayments(payments, k) ==
  IF k > Len(payments) THEN 0
  ELSE payments[k].Payment + SumPayments(payments, k + 1)

\* Sum of every recorded MonthlyPayment amount of months lo..hi of a ledger
\* (the range is halved, to keep the evaluation shallow).
RECURSIVE LedgerPaid(_, _, _)
LedgerPaid(plan, lo, hi) ==
  IF lo > hi THEN 0
  ELSE IF lo = hi THEN SumPayments(plan[lo].Payments, 1)
  ELSE LedgerPaid(plan, lo, (lo + hi) \div 2)
       + LedgerPaid(plan, (lo + hi) \div 2 + 1, hi)

\* Number of recorded MonthlyPayment entries of months lo..hi of a ledger.
RECURSIVE LedgerEntries(_, _, _)
LedgerEntries(plan, lo, hi) ==
  IF lo > hi THEN 0
  ELSE IF lo = hi THEN Len(plan[lo].Payments)
  ELSE LedgerEntries(plan, lo, (lo + hi) \div 2)
       + LedgerEntries(plan, (lo + hi) \div 2 + 1, hi)

Abs(x) == IF x < 0 THEN -x ELSE x

\* The recorded payments of the returned ledger add up to the returned
\* totalInterestPaid + totalDebt, within 0.01 per recorded payment plus
\* the 0.01 paid-off tolerance per debt.
PaymentsMatchTotals(r) ==
  Abs(LedgerPaid(r.MonthlyPlan, 1, Len(r.MonthlyPlan))
      - (r.TotalInterestPaid + r.TotalDebt))
    <= Cent * LedgerEntries(r.MonthlyPlan, 1, Len(r.MonthlyPlan))
       + DebtBalanceTolerance * Len(input.Debts)

\* C3 as stated: for every validated input and both strategies the recorded
\* payments of the returned ledger add up to totalInterestPaid + totalDebt
\* within the rounding tolerance.
C3_PaymentsMatchTotals ==
  (pc = "done" /\ err = "") => PaymentsMatchTotals(result)

\* C3 as amended: the same, for a returned run that ended with every balance
\* within the paid-off tolerance (it did not stop at the month ceiling).
C3_PaymentsMatchTotalsAtPayoff ==
  (pc = "done" /\ err = "" /\ result.Strategy \notin warned)
    => PaymentsMatchTotals(result)

\* A returned run of two debts and several months that paid interest and
\* ended in payoff.
C3_Witness ==
  /\ pc = "done"
  /\ err = ""
  /\ result.Strategy \notin warned
  /\ result.MonthsToPayoff > 2
  /\ result.TotalInterestPaid > 0
  /\ Len(input.Debts) = 2

\* C4: the number of simulated months never exceeds MaxDebtPayoffMonths: the
\* loop counter, the ledger length and the returned monthsToPayoff.
C4_MonthsWithinCeiling ==
  /\ month <= MaxDebtPayoffMonths
  /\ Len(monthlyPlan) <= MaxDebtPayoffMonths
  /\ result.MonthsToPayoff <= MaxDebtPayoffMonths
  /\ Len(result.MonthlyPlan) <= MaxDebtPayoffMonths

\* The fields of domain.DebtExitResult that a run ending in payoff fills.
PayoffFields ==
  {"Strategy", "TotalDebt", "TotalInterestPaid", "MonthsToPayoff",
   "MonthlyPlan", "Comparison", "Explanation"}

\* C5: when the returned run stopped at the month ceiling with a balance above
\* the tolerance, the call returns no error and the result carries a field
\* that marks it, beyond the fields of a payoff result.
C5_CeilingResultIsMarked ==
  (pc = "done" /\ result.Strategy \in warned) =>
    /\ err = ""
    /\ (DOMAIN result) \ PayoffFields # {}

\* C6: the month loop terminates: from every state inside the loop the run
\* reaches the loop's exit in a month where every balance is within the
\* tolerance or the ceiling check fires, and the call then returns.
C6_LoopTerminates ==
  /\ (pc = "loop") ~>
       (pc = "ret" /\ (AllPaid(debts, balances) \/ CeilingReached(month)))
  /\ (pc = "ret") ~> (pc \in {"loop", "done"})
  /\ (pc = "call") ~> (pc = "done")

\* A run has left the loop by the ceiling check, balances still open.
C6_Witness ==
  /\ pc = "ret"
  /\ CeilingReached(month)
  /\ ~AllPaid(debts, balances)

\* debts is input.Debts reordered by the strategy's key: ascending original
\* amount for snowball, descending rate for avalanche.
IsPriorityOrder(ds, in, strat) ==
  /\ Len(ds) = Len(in.Debts)
  /\ \A d \in {in.Debts[i] : i \in 1..Len(in.Debts)} \cup {ds[i] : i \in 1..Len(ds)} :
       Cardinality({i \in 1..Len(ds) : ds[i] = d})
         = Cardinality({i \in 1..Len(in.Debts) : in.Debts[i] = d})
  /\ \A i, j \in 1..Len(ds) :
       i < j => IF strat = "snowball" THEN ds[i].Amount <= ds[j].Amount
                ELSE ds[i].InterestRate >= ds[j].InterestRate

\* First debt of an order whose balance is > 0 ("" when there is none).
RECURSIVE FirstOpen(_, _, _)
FirstOpen(ds, bal, i) ==
  IF i > Len(ds) THEN ""
  ELSE IF bal[ds[i].Name] > 0 THEN ds[i].Name
  ELSE FirstOpen(ds, bal, i + 1)

\* C7: the priority order is the order by the strategy's key of the original
\* debts in every month of the run, and the debt that receives the surplus of
\* a month is the first debt of that order whose balance is > 0 when the
\* surplus is applied.
C7_FixedPriorityOrder ==
  (pc \in {"loop", "ret"}) =>
    /\ IsPriorityOrder(debts, input, strategy)
    /\ month > 0 =>
         step.target = (IF step.availAfterMin > 0
                        THEN FirstOpen(debts, step.afterMin, 1) ELSE "")

\* A month whose surplus went to the first open debt of the order while
\* another debt had a smaller remaining balance > 0.
C7_Witness ==
  /\ pc = "loop"
  /\ step.target # ""
  /\ step.extra > 0
  /\ \E n \in DOMAIN balances :
       step.afterMin[n] > 0 /\ step.afterMin[n] < step.afterMin[step.target]

\* The last ledger month's entry for a debt, in a list of payments.
EntryOf(payments, n) ==
  {payments[k] : k \in {l \in 1..Len(payments) : payments[l].DebtName = n}}

\* C8: in every month at most one debt receives money beyond its minimum-phase
\* payment; it is offered the whole remaining budget and takes at most its
\* balance; what is left of the surplus goes to no other debt that month.
C8_SingleSurplusTarget ==
  (pc \in {"loop", "ret"} /\ month > 0) =>
    /\ Cardinality({n \in DOMAIN balances : balances[n] # step.afterMin[n]}) <= 1
    /\ \A n \in DOMAIN balances :
         n # step.target =>
           /\ balances[n] = step.afterMin[n]
           /\ EntryOf(monthlyPlan[month].Payments, n)
                = EntryOf(step.minPayments, n)
    /\ step.target # "" =>
         /\ step.extra = Min2(step.availAfterMin, step.afterMin[step.target])
         /\ balances[step.target] = step.afterMin[step.target] - step.extra

\* A month whose surplus exceeded the target's balance while another debt
\* still had a balance > 0.
C8_Witness ==
  /\ pc = "loop"
  /\ step.target # ""
  /\ step.availAfterMin > step.extra
  /\ \E n \in DOMAIN balances : n # step.target /\ balances[n] > 0

\* The fields of a run's result that the primary result takes over.
SameRun(r, run) ==
  /\ r.Strategy = run.Strategy
  /\ r.TotalDebt = run.TotalDebt
  /\ r.TotalInterestPaid = run.TotalInterestPaid
  /\ r.MonthsToPayoff = run.MonthsToPayoff
  /\ r.MonthlyPlan = run.MonthlyPlan

\* C9: in compare mode, when the two runs differ in totalInterestPaid, the
\* primary result is the run with the strictly lower totalInterestPaid.
C9_PrimaryHasLowerInterest ==
  (pc = "done" /\ err = "" /\ input.Strategy = "compare") =>
    /\ snowballResult.TotalInterestPaid < RunResult.TotalInterestPaid
         => SameRun(result, snowballResult)
    /\ RunResult.TotalInterestPaid < snowballResult.TotalInterestPaid
         => SameRun(result, RunResult)

\* A compare call has returned and its avalanche run paid less interest.
C9_Witness ==
  /\ pc = "done"
  /\ err = ""
  /\ input.Strategy = "compare"
  /\ strategy = "avalanche"
  /\ RunResult.TotalInterestPaid < snowballResult.TotalInterestPaid
  /\ result.Strategy = "avalanche"

\* C10: in compare mode, when the two runs have equal totalInterestPaid, the
\* primary result is the avalanche run.
C10_TieFavoursAvalanche ==
  (pc = "done" /\ err = "" /\ input.Strategy = "compare"
   /\ snowballResult.TotalInterestPaid = RunResult.TotalInterestPaid)
    => result.Strategy = "avalanche"

\* C11: in compare mode the comparison record has interestSaved =
\* max(0, snowball.totalInterestPaid - avalanche.totalInterestPaid), which is
\* never negative, monthsSaved = snowball.monthsToPayoff -
\* avalanche.monthsToPayoff, and the two summaries are the totals of the two
\* runs.
C11_ComparisonRecord ==
  (pc = "done" /\ err = "" /\ input.Strategy = "compare") =>
    /\ result.Comparison.Savings.InterestSaved
         = Max2(0, snowballResult.TotalInterestPaid
                   - RunResult.TotalInterestPaid)
    /\ result.Comparison.Savings.InterestSaved >= 0
    /\ result.Comparison.Savings.MonthsSaved
         = snowballResult.MonthsToPayoff - RunResult.MonthsToPayoff
    /\ result.Comparison.Snowball
         = [TotalInterestPaid |-> snowballResult.TotalInterestPaid,
            MonthsToPayoff |-> snowballResult.MonthsToPayoff]
    /\ result.Comparison.Avalanche
         = [TotalInterestPaid |-> RunResult.TotalInterestPaid,
            MonthsToPayoff |-> RunResult.MonthsToPayoff]

\* A compare call has returned whose snowball run paid less interest than its
\* avalanche run: the difference is negative and interestSaved is 0.
C11_Witness ==
  /\ pc = "done"
  /\ err = ""
  /\ input.Strategy = "compare"
  /\ snowballResult.TotalInterestPaid < RunResult.TotalInterestPaid
  /\ result.Comparison.Savings.InterestSaved = 0

\* C12: no step of a call changes the caller's input (the debts, their order,
\* amounts, rates and minimum payments), and in compare mode each run is the
\* run calculateStrategy makes alone on that input: the avalanche run that
\* follows the snowball run returns what an avalanche run on the original
\* input returns.
C12_RunsDoNotLeak ==
  /\ [][input' = input]_vars
  /\ [](pc = "ret" /\ input.Strategy = "compare"
        => RunResult = calculateStrategy(input, strategy))

\* The avalanche run of a compare call has ended; the snowball run before it
\* worked in another order, and sorting the snowball order by rate would not
\* give the avalanche order of the original input (two debts tie on the rate).
C12_Witness ==
  /\ pc = "ret"
  /\ input.Strategy = "compare"
  /\ strategy = "avalanche"
  /\ snowballResult.MonthlyPlan # monthlyPlan
  /\ debts # SortDebts(SortDebts(input.Debts, "snowball"), "avalanche")

\* Two debts of the request have the same key under the strategy.
TieOnKey(in, strat) ==
  \E i, j \in 1..Len(in.Debts) :
    /\ i # j
    /\ IF strat = "snowball" THEN in.Debts[i].Amount = in.Debts[j].Amount
       ELSE in.Debts[i].InterestRate = in.Debts[j].InterestRate

WithBudget(in, b) == [in EXCEPT !.AvailableMonthlyPayment = b]

\* C14: for a validated debt set and a strategy, a run with a larger budget
\* (any budget at least the budget of the request passes validation with it)
\* takes no more months and pays no more interest than the run of the request.
C14_MoreBudgetNeverWorse ==
  pc = "ret" =>
    \A b \in AllBudgets :
      b >= input.AvailableMonthlyPayment =>
        /\ Validate(WithBudget(input, b)) = ""
        /\ calculateStrategy(WithBudget(input, b), strategy).MonthsToPayoff
             <= RunResult.MonthsToPayoff
        /\ calculateStrategy(WithBudget(input, b), strategy).TotalInterestPaid
             <= RunResult.TotalInterestPaid

\* Of two debts, the one with the smaller principal (the first one of the
\* request when the principals are equal), and the other one.
SmallerDebt(in) ==
  IF in.Debts[2].Amount < in.Debts[1].Amount
  THEN in.Debts[2].Name ELSE in.Debts[1].Name

LargerDebt(in) ==
  IF in.Debts[2].Amount < in.Debts[1].Amount
  THEN in.Debts[1].Name ELSE in.Debts[2].Name

\* C15: under snowball with two debts, D1 the one with the smaller principal:
\* in every month in which D1 has a balance > 0 after the minimum payments,
\* D2 is paid exactly its minimum-phase payment and the surplus goes to D1;
\* and in Scenario B (D1 = 1000 at 20% min 50, D2 = 5000 at 5% min 100,
\* budget 500) D1's balance is zero in a month strictly before the first
\* month in which D2's balance is zero.
C15_SmallerDebtFirst ==
  (pc \in {"loop", "ret"} /\ strategy = "snowball" /\ Len(input.Debts) = 2
   /\ month > 0) =>
    /\ step.afterMin[SmallerDebt(input)] > 0 =>
         /\ balances[LargerDebt(input)] = step.afterMin[LargerDebt(input)]
         /\ EntryOf(monthlyPlan[month].Payments, LargerDebt(input))
              = EntryOf(step.minPayments, LargerDebt(input))
         /\ step.availAfterMin > 0 =>
              /\ step.target = SmallerDebt(input)
              /\ step.extra = Min2(step.availAfterMin,
                                   step.afterMin[SmallerDebt(input)])
    /\ (input.Debts = ScenarioB /\ balances["Debt2"] = 0) =>
         step.start["Debt1"] = 0
    /\ (input.Debts = ScenarioB /\ pc = "ret") =>
         (balances["Debt1"] = 0 /\ balances["Debt2"] = 0)

\* Scenario B under snowball, in the month whose surplus brings Debt1 to zero
\* while Debt2, paid its minimum only, still has a balance.
C15_Witness ==
  /\ pc = "loop"
  /\ strategy = "snowball"
  /\ input.Debts = ScenarioB
  /\ input.AvailableMonthlyPayment = ToUnits(500)
  /\ step.target = "Debt1"
  /\ step.extra > 0
  /\ balances["Debt1"] = 0
  /\ balances["Debt2"] > 0

\* One debt at 0% whose minimum payment equals the budget and divides the
\* principal.
ExactPaymentsAtZeroRate(in) ==
  /\ Validate(in) = ""
  /\ Len(in.Debts) = 1
  /\ in.Debts[1].InterestRate = 0
  /\ ToUnits(in.Debts[1].MinimumPayment) = in.AvailableMonthlyPayment
  /\ in.Debts[1].Amount % in.Debts[1].MinimumPayment = 0

\* The run has principal / P months, no interest, and one payment of P in
\* every month of the ledger.
PaidInEqualPayments ==
  /\ month = input.Debts[1].Amount \div input.Debts[1].MinimumPayment
  /\ roundTo2Decimals(totalInterestPaid) = 0
  /\ Len(monthlyPlan) = month
  /\ \A k \in 1..Len(monthlyPlan) :
       /\ Len(monthlyPlan[k].Payments) = 1
       /\ monthlyPlan[k].Payments[1].Payment
            = ToUnits(input.Debts[1].MinimumPayment)

\* C16 as stated: for a single debt at 0% whose minimum payment P equals the
\* budget and divides the principal, the run returns monthsToPayoff =
\* principal / P and totalInterestPaid = 0, with exactly one payment of P
\* recorded per month.
C16_ZeroRateEqualPayments ==
  (pc = "ret" /\ ExactPaymentsAtZeroRate(input)) => PaidInEqualPayments

\* C16 as amended: the same, when principal / P is at most
\* MaxDebtPayoffMonths and P is above the paid-off tolerance (at least two
\* cents).
C16_ZeroRateEqualPaymentsBelowCeiling ==
  (pc = "ret" /\ ExactPaymentsAtZeroRate(input)
   /\ input.Debts[1].Amount \div input.Debts[1].MinimumPayment
        <= MaxDebtPayoffMonths
   /\ ToUnits(input.Debts[1].MinimumPayment) >= 2 * DebtBalanceTolerance)
    => PaidInEqualPayments

\* Scenario A has run: principal 1200, P = 100, 12 months.
C16_Witness ==
  /\ pc = "ret"
  /\ input.Debts = ScenarioA
  /\ input.AvailableMonthlyPayment = ToUnits(100)
  /\ month = 12
  /\ totalInterestPaid = 0

\* A loan input as the contract calls it valid: a positive amount of at most
\* MaxLoanAmount, a rate from 0 to MaxInterestRate, a term from 1 to
\* MaxTermMonths.
ValidLoan(in) ==
  /\ in.Amount.Whole >= 0
  /\ in.Amount.Whole + in.Amount.Part > 0
  /\ in.Amount.Whole < MaxLoanAmount
       \/ (in.Amount.Whole = MaxLoanAmount /\ in.Amount.Part = 0)
  /\ in.InterestRate \in 0..MaxInterestRate
  /\ in.TermMonths \in 1..MaxTermMonths

\* C17: when CalculateLoan has returned for a valid input and the
\* repository's Save fails, Save was called and did fail, and the call
\* returned a nil error and the computed result, the one it returns when Save
\* succeeds.
C17_SaveFailureNotPropagated ==
  loanPc = "done" /\ ValidLoan(loanInput) /\ forceError
    => /\ saveFailures = 1
       /\ loanErr = ""
       /\ loanResult = ComputeLoan(loanInput)

\* C17 witness: a call for a valid loan at a positive rate has returned its
\* instalment although Save returned an error.
C17_Witness ==
  /\ loanPc = "done"
  /\ ValidLoan(loanInput)
  /\ loanInput.InterestRate > 0
  /\ saveFailures = 1
  /\ loanErr = ""
  /\ loanResult.MonthlyPayment > 0

\* C18: a call of CalculateLoan calls Save at most once; when it has
\* returned, it has called Save once if the input is valid and not at all if
\* it is not, and a call that returned an error has not called Save.
C18_SaveOncePerValidCall ==
  /\ saveCalls <= 1
  /\ loanPc = "call" => saveCalls = 0
  /\ loanPc = "done"
       => /\ saveCalls = (IF ValidLoan(loanInput) THEN 1 ELSE 0)
          /\ loanErr # "" => saveCalls = 0
          /\ loanErr = "" <=> ValidLoan(loanInput)

\* C18 witness: a call for a valid loan has returned and Save was called
\* once.
C18_Witness ==
  /\ loanPc = "done"
  /\ ValidLoan(loanInput)
  /\ loanErr = ""
  /\ saveCalls = 1

\* C19 as stated: for a valid loan at rate 0, CalculateLoan returns
\* monthlyPayment = principal / termMonths rounded to 2 decimals,
\* totalPayment = principal rounded to 2 decimals and totalInterest = 0.
C19_ZeroRateLoan ==
  loanPc = "done" /\ ValidLoan(loanInput) /\ loanInput.InterestRate = 0
    => LET principal == AmountUnits(loanInput.Amount)
       IN /\ loanResult.MonthlyPayment
               = roundTo2Decimals(RoundDiv(principal, loanInput.TermMonths))
          /\ loanResult.TotalPayment = roundTo2Decimals(principal)
          /\ loanResult.TotalInterest = 0

\* C19 as amended: for a valid loan at rate 0, CalculateLoan returns
\* monthlyPayment = principal / termMonths rounded to 2 decimals and
\* totalInterest = 0; totalPayment is the principal rounded to 2 decimals
\* when the principal is a whole number of cents, and within one cent of it
\* otherwise.
C19_ZeroRateLoanWholeCents ==
  loanPc = "done" /\ ValidLoan(loanInput) /\ loanInput.InterestRate = 0
    => LET principal == AmountUnits(loanInput.Amount)
           rounded == roundTo2Decimals(principal)
       IN /\ loanResult.MonthlyPayment
               = roundTo2Decimals(RoundDiv(principal, loanInput.TermMonths))
          /\ loanResult.TotalInterest = 0
          /\ principal % Cent = 0 => loanResult.TotalPayment = principal
          /\ loanResult.TotalPayment \in {rounded - Cent, rounded, rounded + Cent}

\* C19 witness: a zero-rate loan of a whole number of cents whose term does
\* not divide it has been computed: the instalments as rounded do not add up
\* to the total returned, which is the principal.
C19_Witness ==
  /\ loanPc = "done"
  /\ ValidLoan(loanInput)
  /\ loanInput.InterestRate = 0
  /\ AmountUnits(loanInput.Amount) % Cent = 0
  /\ loanResult.MonthlyPayment * loanInput.TermMonths # loanResult.TotalPayment
  /\ loanResult.TotalPayment = AmountUnits(loanInput.Amount)
  /\ loanResult.TotalInterest = 0

\* The terms of the range whose instalment CalculateLoan computes and is at
\* most the maximum monthly payment.
SurvivingTerms(in) ==
  { t \in in.MinTermMonths..in.MaxTermMonths :
      /\ ValidLoan(LoanInput(in.Amount, in.InterestRate, t))
      /\ ComputeLoan(LoanInput(in.Amount, in.InterestRate, t)).MonthlyPayment
           <= ToUnits(in.MaxMonthlyPayment) }

\* C20: when RecommendTerm has returned for an input that passed its
\* validation, every recommendation has a term of the range, no term appears
\* twice, every monthlyPayment is at most maxMonthlyPayment, and the terms
\* returned are the surviving ones; a term whose CalculateLoan call returned
\* an error did not stop the loop, which went on to the last term, and its
\* error is not the error returned; with no surviving term the call returns
\* the no-valid-terms error and never an empty list.
C20_RecommendationsFiltered ==
  termPc = "done" /\ ValidateTermInput(termInput) = ""
    => LET recs == termResult.Recommendations
       IN /\ \A i \in 1..Len(recs) :
               /\ recs[i].TermMonths
                    \in termInput.MinTermMonths..termInput.MaxTermMonths
               /\ recs[i].MonthlyPayment
                    <= ToUnits(termInput.MaxMonthlyPayment)
               /\ \A j \in 1..Len(recs) :
                    recs[i].TermMonths = recs[j].TermMonths => i = j
          /\ term = termInput.MaxTermMonths + 1
          /\ skipped # {} => termErr = NoValidTerms
          /\ termErr \in {"", NoValidTerms}
          /\ termErr = "" =>
               /\ Len(recs) > 0
               /\ { recs[i].TermMonths : i \in 1..Len(recs) }
                    = SurvivingTerms(termInput)
          /\ SurvivingTerms(termInput) = {} =>
               termErr = NoValidTerms /\ termResult = ZeroTermResult

\* C20 witness: RecommendTerm has returned recommendations for some terms of
\* the range after the filter dropped others.
C20_Witness ==
  /\ termPc = "done"
  /\ termErr = ""
  /\ Len(termResult.Recommendations) > 0
  /\ Len(termResult.Recommendations)
       < termInput.MaxTermMonths - termInput.MinTermMonths + 1
  /\ \A i \in 1..Len(termResult.Recommendations) :
       termResult.Recommendations[i].MonthlyPayment
         <= ToUnits(termInput.MaxMonthlyPayment)

\* C21: the list RecommendTerm returns is ordered by non-increasing score,
\* recommendations of equal score are in ascending term order, and
\* recommendedTerm is the term of the first element.
C21_SortedByScoreTiesByTerm ==
  termPc = "done" /\ termErr = ""
    => LET recs == termResult.Recommendations
       IN /\ \A i, j \in 1..Len(recs) :
               i < j =>
                 /\ ~ScoreGreater(recs[j].Score, recs[i].Score)
                 /\ EqualForLess(recs[i], recs[j])
                      => recs[i].TermMonths < recs[j].TermMonths
          /\ termResult.RecommendedTerm = recs[1].TermMonths

\* C30: for every input that passes RecommendTerm's validation, minTerm =
\* maxTerm included, the score of every recommendation returned is a finite
\* number: the term score never divides by a zero maxTerm - minTerm.
C30_ScoresAreFinite ==
  termPc = "done" /\ ValidateTermInput(termInput) = ""
    => \A i \in 1..Len(termResult.Recommendations) :
         ~termResult.Recommendations[i].Score.NaN

\* C22: a request without a Content-Type header is answered 405 when it is
\* not a POST, 400 when it is a POST whose body is not valid JSON, and 200
\* when it is a POST whose body is valid JSON for a valid loan.
C22_StatusWithoutContentType ==
  httpPc = "done" /\ httpRequest.ContentType = ""
    => /\ httpRequest.Method # "POST"
            => httpResponse.Status = StatusMethodNotAllowed
       /\ httpRequest.Method = "POST" /\ httpRequest.Body.Kind = "malformed"
            => httpResponse.Status = StatusBadRequest
       /\ (/\ httpRequest.Method = "POST"
           /\ httpRequest.Body.Kind = "object"
           /\ httpRequest.Body.Keys = "fields"
           /\ ValidLoan(httpRequest.Body.Loan))
            => httpResponse.Status = StatusOK
\* The goroutines inside the critical section of the mutex.
InCriticalSection ==
  { p \in Callers : callerPc[p] \in {"body", "true", "false"} }
  \cup (IF cleanerPc = "sweep" THEN {Cleaner} ELSE {})

\* C23: the mutex admits one goroutine at a time (a caller of Allow or the
\* cleanup) to the bucket table, and with capacity >= 1 the calls of Allow
\* for a client not seen before, made within one refill window (less than
\* refillDur after the first of them), return true exactly
\* min(number of calls, capacity) times.
C23_FirstWindowGrants ==
  /\ Cardinality(InCriticalSection) <= 1
  /\ capacity >= 1 =>
       \A c \in Clients :
          periods[c].first =>
            periods[c].grants = Min2(periods[c].calls, capacity)

\* A step that runs the body of Allow for a client leaves the bucket of
\* every other client as it was.
OtherBucketsKept ==
  \A p \in Callers :
     (callerPc[p] = "body" /\ callerPc'[p] # "body") =>
       \A c \in Clients \ {callerIp[p]} :
          /\ (c \in DOMAIN clients) = (c \in DOMAIN clients')
          /\ c \in DOMAIN clients => clients'[c] = clients[c]

\* C29: whatever the capacity (0 included), Allow returns true at most
\* capacity times for a client between two refills of its bucket, the
\* tokens of every bucket stay within 0..capacity, and a call for one client
\* leaves the buckets of the others alone.
C29_TokensWithinCapacity ==
  /\ [](/\ \A c \in Clients : periods[c].sinceRefill <= capacity
        /\ \A c \in DOMAIN clients : clients[c].tokens \in 0..capacity)
  /\ [][OtherBucketsKept]_vars

\* Every balance of a table is within the paid-off tolerance.
WithinTolerance(bal) == \A n \in DOMAIN bal : bal[n] <= DebtBalanceTolerance

\* C24: a run that is not stopped by the month ceiling ends with the first
\* month at whose end every balance is <= DebtBalanceTolerance: after a month
\* that is not the last some balance is above the tolerance, and after the
\* last month none is; the ledger has one entry per month.
C24_LastMonthIsFirstPaidOff ==
  /\ (pc = "loop" /\ month > 0) => ~WithinTolerance(balances)
  /\ (pc = "ret" /\ strategy \notin warned) =>
       /\ WithinTolerance(balances)
       /\ Len(monthlyPlan) = month
       /\ monthlyPlan[month].Month = month

\* A run of two debts has ended in payoff after several months, the last of
\* which cleared a debt.
C24_Witness ==
  /\ pc = "ret"
  /\ strategy \notin warned
  /\ month > 2
  /\ Len(debts) = 2
  /\ \E n \in DOMAIN balances :
       step.start[n] > DebtBalanceTolerance /\ balances[n] = 0

\* The minimum-payment phase as C25 words it, from debt i of the order on:
\* start is the balance table the month starts with, acc = [bal, remaining,
\* paid], paid being the payment of every debt met so far.
RECURSIVE StatedMinimums(_, _, _, _)
StatedMinimums(ds, i, start, acc) ==
  IF i > Len(ds) THEN acc
  ELSE
    LET d == ds[i]
        n == d.Name
        thisMonthInterest == Interest(start[n], d.InterestRate)
        payment ==
          Min2(Min2(Max2(ToUnits(d.MinimumPayment), thisMonthInterest),
                    FloatSum(start[n], thisMonthInterest)),
               acc.remaining)
    IN IF ~(start[n] > 0)
       THEN StatedMinimums(ds, i + 1, start,
              [acc EXCEPT !.paid = [m \in DOMAIN acc.paid \cup {n} |->
                                      IF m = n THEN 0 ELSE acc.paid[m]]])
       ELSE StatedMinimums(ds, i + 1, start,
              [bal |-> [acc.bal EXCEPT ![n] =
                          Max2(start[n] - Max2(0, payment - thisMonthInterest),
                               0)],
               remaining |-> acc.remaining - payment,
               paid |-> [m \in DOMAIN acc.paid \cup {n} |->
                           IF m = n THEN payment ELSE acc.paid[m]]])

\* The stated minimum-payment phase of the month observed in step.
StatedMonth ==
  StatedMinimums(debts, 1, step.start,
                 [bal |-> step.start,
                  remaining |-> input.AvailableMonthlyPayment,
                  paid |-> <<>>])

\* C25: in the minimum-payment phase every active debt is paid
\* min(max(minimumPayment, thisMonthInterest), balance + thisMonthInterest,
\* remaining budget), the interest being that of the balance the month starts
\* with; the balance goes down by max(0, payment - interest), floored at 0.
C25_MinimumPhasePayments ==
  (pc \in {"loop", "ret"} /\ month > 0) =>
    /\ step.afterMin = StatedMonth.bal
    /\ step.availAfterMin = StatedMonth.remaining
    /\ \A n \in DOMAIN step.start :
         /\ step.start[n] > 0 =>
              /\ n \in DOMAIN step.interest
              /\ step.interest[n]
                   = Interest(step.start[n],
                       (CHOOSE d \in {debts[i] : i \in 1..Len(debts)} :
                          d.Name = n).InterestRate)
         /\ EntryOf(step.minPayments, n) =
              (IF StatedMonth.paid[n] > 0
               THEN {[DebtName |-> n,
                      Payment |-> roundTo2Decimals(StatedMonth.paid[n]),
                      RemainingBalance |->
                        roundTo2Decimals(StatedMonth.bal[n])]}
               ELSE {})

\* A month in which one debt was cleared by a payment of balance + interest,
\* below its minimum payment, and another was paid its minimum payment, part
\* of it interest.
C25_Witness ==
  /\ pc \in {"loop", "ret"}
  /\ month > 1
  /\ \E i, j \in 1..Len(debts) :
       /\ i # j
       /\ step.start[debts[i].Name] > 0
       /\ step.interest[debts[i].Name] > 0
       /\ step.afterMin[debts[i].Name] = 0
       /\ StatedMonth.paid[debts[i].Name] < ToUnits(debts[i].MinimumPayment)
       /\ step.interest[debts[j].Name] > 0
       /\ step.afterMin[debts[j].Name] > 0
       /\ StatedMonth.paid[debts[j].Name] = ToUnits(debts[j].MinimumPayment)

\* The entries of a list of payments that name debt n.
EntriesFor(payments, n) ==
  {k \in 1..Len(payments) : payments[k].DebtName = n}

\* C26: no month of the ledger has two entries for one debt.  In the month
\* just simulated, a debt paid in both phases has one entry, whose amount is
\* its minimum-phase payment plus the surplus (within a cent, the entry
\* being rounded in each phase) and whose
\* remaining balance is its balance after both; every entry carries the
\* balance the month ends with; and a debt whose balance was 0 when the month
\* started has no entry.
C26_OneEntryPerDebt ==
  (pc \in {"loop", "ret"} /\ month > 0) =>
    /\ \A k \in 1..Len(monthlyPlan) :
         \A n \in DOMAIN balances :
            Cardinality(EntriesFor(monthlyPlan[k].Payments, n)) <= 1
    /\ \A n \in DOMAIN balances :
         \A k \in EntriesFor(monthlyPlan[month].Payments, n) :
            /\ monthlyPlan[month].Payments[k].RemainingBalance
                 = roundTo2Decimals(balances[n])
            /\ Abs(monthlyPlan[month].Payments[k].Payment
                   - (StatedMonth.paid[n]
                      + (IF n = step.target THEN step.extra ELSE 0)))
                 <= Cent
    /\ step.target # "" =>
         Cardinality(EntriesFor(monthlyPlan[month].Payments, step.target)) = 1
    /\ \A n \in DOMAIN balances :
         step.start[n] = 0 => EntriesFor(monthlyPlan[month].Payments, n) = {}

\* A month, not the first, in which one debt got its minimum payment and
\* the surplus, while a debt that had entries in earlier months started the
\* month with balance 0.
C26_Witness ==
  /\ pc \in {"loop", "ret"}
  /\ month > 1
  /\ step.target # ""
  /\ step.extra > 0
  /\ StatedMonth.paid[step.target] > 0
  /\ \E n \in DOMAIN balances :
       /\ step.start[n] = 0
       /\ \E k \in 1..(month - 1) :
            EntriesFor(monthlyPlan[k].Payments, n) # {}

\* The original amount of the debt named n, in units.
OriginalAmount(n) ==
  ToUnits((CHOOSE d \in {input.Debts[i] : i \in 1..Len(input.Debts)} :
             d.Name = n).Amount)

\* The balances between two months: none is negative or above the original
\* amount, neither phase of the month just simulated has raised one, and a
\* debt that started the month at 0 accrued no interest in it and is at 0.
BalancesInRange ==
  (pc \in {"loop", "ret"}) =>
    \A n \in DOMAIN balances :
       /\ 0 <= balances[n]
       /\ balances[n] <= OriginalAmount(n)
       /\ month > 0 =>
            /\ balances[n] <= step.afterMin[n]
            /\ step.afterMin[n] <= step.start[n]
            /\ step.start[n] = 0 =>
                 /\ n \notin DOMAIN step.interest
                 /\ balances[n] = 0
            /\ \A k \in EntriesFor(monthlyPlan[month].Payments, n) :
                 monthlyPlan[month].Payments[k].RemainingBalance >= 0

\* A month of a run leaves no balance above what it was, and adds to the
\* interest of the run the interest of the debts with balance > 0 only.
MonthNeverRaises ==
  (pc = "loop" /\ pc' \in {"loop", "ret"}) =>
    /\ \A n \in DOMAIN balances :
         /\ balances'[n] <= balances[n]
         /\ balances[n] = 0 => balances'[n] = 0
    /\ totalInterestPaid' - totalInterestPaid
         = SumInterest(debts,
             [n \in {m \in DOMAIN balances : balances[m] > 0} |->
                Interest(balances[n],
                  (CHOOSE d \in {debts[i] : i \in 1..Len(debts)} :
                     d.Name = n).InterestRate)], 1)

\* C27: for every validated input every balance is non-negative and never
\* goes up from one month to the next (so it never exceeds the original
\* amount), and a debt whose balance has reached 0 accrues no further
\* interest and stays at 0 for the rest of the run.
C27_BalancesNeverGrow == []BalancesInRange /\ [][MonthNeverRaises]_vars

\* A run of two debts goes on after one of them has reached 0: the month just
\* simulated started with that debt at 0 and lowered the other, which
\* accrued interest.
C27_Witness ==
  /\ pc \in {"loop", "ret"}
  /\ month > 1
  /\ \E n, m \in DOMAIN balances :
       /\ step.start[n] = 0
       /\ balances[n] = 0
       /\ m \in DOMAIN step.interest
       /\ step.interest[m] > 0
       /\ balances[m] < step.start[m]
       /\ step.start[m] < OriginalAmount(m)

\* The payment C28 states for an active debt: min(minimumPayment,
\* balance + interest), the interest being that of the balance the month
\* starts with.
StatedUncappedPayment(d) ==
  Min2(ToUnits(d.MinimumPayment),
       FloatSum(step.start[d.Name],
                Interest(step.start[d.Name], d.InterestRate)))

\* The budget left in the month just simulated is never negative, after the
\* minimum phase and after the surplus.
BudgetNeverNegative ==
  /\ step.availAfterMin >= 0
  /\ step.availAfterMin - step.extra >= 0

\* The total paid in the month just simulated, before it is rounded.
TotalPaidOfMonth ==
  (input.AvailableMonthlyPayment - step.availAfterMin) + step.extra

\* C28 as stated: for every validated input the remaining-budget cap never
\* binds in the minimum-payment phase (every debt with balance > 0 is paid
\* min(minimumPayment, balance + interest)), the remaining budget never
\* becomes negative, and the total paid of a month never exceeds
\* availableMonthlyPayment.
C28_BudgetCapNeverBinds ==
  (pc \in {"loop", "ret"} /\ month > 0) =>
    /\ \A i \in 1..Len(debts) :
         step.start[debts[i].Name] > 0 =>
           StatedMonth.paid[debts[i].Name] = StatedUncappedPayment(debts[i])
    /\ BudgetNeverNegative
    /\ monthlyPlan[month].TotalPaid <= input.AvailableMonthlyPayment

\* C28 as amended: for every validated input the remaining budget never
\* becomes negative; every debt with balance > 0 is paid
\* min(minimumPayment, balance + interest) up to float rounding (one ulp per
\* debt of the request; its entry of the ledger is within a cent of that
\* amount); and the total paid of a month never exceeds
\* availableMonthlyPayment before it is rounded to cents, the TotalPaid of
\* the ledger being that total rounded, less than a cent above the budget.
C28_BudgetCapBindsByRoundingOnly ==
  (pc \in {"loop", "ret"} /\ month > 0) =>
    /\ \A i \in 1..Len(debts) :
         step.start[debts[i].Name] > 0 =>
           /\ Abs(StatedMonth.paid[debts[i].Name]
                  - StatedUncappedPayment(debts[i])) <= Len(debts)
           /\ \A k \in EntriesFor(step.minPayments, debts[i].Name) :
                Abs(step.minPayments[k].Payment
                    - StatedUncappedPayment(debts[i])) < Cent
    /\ BudgetNeverNegative
    /\ TotalPaidOfMonth <= input.AvailableMonthlyPayment
    /\ monthlyPlan[month].TotalPaid = roundTo2Decimals(TotalPaidOfMonth)
    /\ monthlyPlan[month].TotalPaid - input.AvailableMonthlyPayment < Cent

\* A month in which the minimum payments of two debts took the whole budget:
\* the first was paid its interest, one ulp above its minimum payment, and
\* the cap held the second one ulp below its minimum payment.
C28_Witness ==
  /\ pc \in {"loop", "ret"}
  /\ month > 1
  /\ Len(debts) = 2
  /\ step.availAfterMin = 0
  /\ StatedMonth.paid[debts[1].Name] = ToUnits(debts[1].MinimumPayment) + 1
  /\ StatedMonth.paid[debts[2].Name] = ToUnits(debts[2].MinimumPayment) - 1
  /\ StatedMonth.paid[debts[2].Name]
       < step.start[debts[2].Name] + step.interest[debts[2].Name]

====
